---- MODULE Spec2Model ----
(***************************************************************************)
(* Verification model of trace (twilight-flower/trace): the session store  *)
(* (src/src/lib.rs, SessionsFile), the room catalog (get_rooms_info) and   *)
(* the room resolver (src/src/export.rs, get_room_index_by_identifier),    *)
(* the export pipeline (src/src/export.rs, export; src/src/bin/trace-cli.rs *)
(* export) and the session login / logout handlers.                        *)
(*                                                                         *)
(* Strings that the code compares, orders or splits are sequences of       *)
(* character codes (ASCII): "@a:x" is <<64, 97, 58, 120>>.                  *)
(***************************************************************************)
EXTENDS Naturals, Integers, Sequences, FiniteSets, TLC

VARIABLES
    file,       \* the backing file sessions.json: [exists, utf8, data]
    pc,         \* position of the process owning the store
    sessions,   \* SessionsFile.sessions, the in-memory Vec<Session>
    buf,        \* the serialized content a running fs::write is writing
    call,       \* the store operation in progress
    lastOp,     \* the last completed store operation and its result
    prevOp,     \* the completed store operation before lastOp
    pre,        \* sessions and file as they were when lastOp was called
    observed,   \* what another process's read of the backing file returned,
                \* and the store operation that was writing the file then
    joined,     \* Client::joined_rooms(), in the order the client yields them
    rooms_info, \* the Vec<RoomWithCachedInfo> returned by get_rooms_info
    rpc,        \* position of the catalog/resolver pipeline
    room_ident, \* the identifier last handed to the resolver
    resolved,   \* the Result of get_room_index_by_identifier
    fname,      \* a room and the basename format_export_filename gave it
    ex,         \* the export handler: its arguments and local variables
    timeline,   \* the server's message history of each room
    fsys,       \* the output path and the files under it
    net,        \* the kinds of network call the running handler has made
    cli,        \* the session login / logout handler in progress
    dirs,       \* the local cache directories that exist
    tasks,      \* the command that restores clients, and its per-account tasks
    other,      \* a second process that opened the same sessions.json
    txt         \* one run of messages_to_txt: its events, cache and output

vars == <<file, pc, sessions, buf, call, lastOp, prevOp, pre, observed,
          joined, rooms_info, rpc, room_ident, resolved,
          fname, ex, timeline, fsys, net, cli, dirs, tasks, other, txt>>

storeVars == <<file, pc, sessions, buf, call, lastOp, prevOp, pre, observed>>
roomVars == <<joined, rooms_info, rpc, room_ident, resolved>>
exportVars == <<ex, timeline, fsys>>
cliVars == <<cli, dirs>>
restVars == <<tasks, other, txt>>

----------------------------------------------------------------------------
(* Strings *)

\* str::cmp / String::cmp: byte-wise lexicographic order
RECURSIVE StrCmp(_, _)
StrCmp(s, t) ==
    IF s = <<>> /\ t = <<>> THEN "Equal"
    ELSE IF s = <<>> THEN "Less"
    ELSE IF t = <<>> THEN "Greater"
    ELSE IF Head(s) < Head(t) THEN "Less"
    ELSE IF Head(s) > Head(t) THEN "Greater"
    ELSE StrCmp(Tail(s), Tail(t))

----------------------------------------------------------------------------
(* Session store: src/src/lib.rs *)

UserA == <<64, 97, 58, 120>>    \* "@a:x"
UserB == <<64, 98, 58, 120>>    \* "@b:x"
UserIds == {UserA, UserB}

\* Option<String>: <<>> is None, <<s>> is Some(s)
\* struct Session: the records a login can hand to new_session
Session ==
    { [user_id |-> u, device_id |-> "DEV1", access_token |-> "tok1",
       refresh_token |-> <<>>] : u \in UserIds }
    \cup
    { [user_id |-> u, device_id |-> "DEV2", access_token |-> "tok2",
       refresh_token |-> <<"ref2">>] : u \in UserIds }

\* JSON tokens of the serialized file
Punct(c) == [k |-> "punct", v |-> c]
Str(s) == [k |-> "str", v |-> s]
Null == [k |-> "null", v |-> ""]

\* serde_json::to_string of one Session (derive(Serialize))
SerializeSession(s) ==
    <<Punct("{"), Str(s.user_id), Str(s.device_id), Str(s.access_token),
      IF s.refresh_token = <<>> THEN Null ELSE Str(s.refresh_token[1]),
      Punct("}")>>

RECURSIVE SerializeAll(_)
SerializeAll(ss) ==
    IF ss = <<>> THEN <<>>
    ELSE SerializeSession(Head(ss)) \o SerializeAll(Tail(ss))

\* serde_json::to_string(&self.sessions)
Serialize(ss) == <<Punct("[")>> \o SerializeAll(ss) \o <<Punct("]")>>

\* the literal "[]" that open writes
EmptyList == <<Punct("["), Punct("]")>>

\* serde_json::from_str of one Session (derive(Deserialize))
SessionTokensOk(d) ==
    /\ Len(d) = 6
    /\ d[1] = Punct("{") /\ d[6] = Punct("}")
    /\ d[2].k = "str" /\ d[3].k = "str" /\ d[4].k = "str"
    /\ d[5].k \in {"str", "null"}

DeserializeSession(d) ==
    [user_id |-> d[2].v, device_id |-> d[3].v, access_token |-> d[4].v,
     refresh_token |-> IF d[5].k = "null" THEN <<>> ELSE <<d[5].v>>]

\* serde_json::from_str::<Vec<Session>>: ok is FALSE when the text is not JSON
Parse(data) ==
    LET n == Len(data)
        body == SubSeq(data, 2, n - 1)
        m == (n - 2) \div 6
        grp(i) == SubSeq(body, 6 * (i - 1) + 1, 6 * i)
    IN  IF /\ n >= 2
           /\ data[1] = Punct("[") /\ data[n] = Punct("]")
           /\ (n - 2) % 6 = 0
           /\ \A i \in 1..m : SessionTokensOk(grp(i))
        THEN [ok |-> TRUE, sessions |-> [i \in 1..m |-> DeserializeSession(grp(i))]]
        ELSE [ok |-> FALSE, sessions |-> <<>>]

\* states of the backing file
Absent == [exists |-> FALSE, utf8 |-> TRUE, data |-> <<>>]
NotUtf8 == [exists |-> TRUE, utf8 |-> FALSE, data |-> <<>>]
Text(d) == [exists |-> TRUE, utf8 |-> TRUE, data |-> d]

\* fs::read_to_string(&path).is_ok()
ReadOk(f) == f.exists /\ f.utf8

NoCall == [op |-> "none", uid |-> <<>>, rec |-> <<>>, ret |-> "none",
           val |-> <<>>, wrote |-> FALSE]
Done(op, uid, rec, ret, val) ==
    [op |-> op, uid |-> uid, rec |-> rec, ret |-> ret, val |-> val, wrote |-> FALSE]
Snapshot == [sessions |-> sessions, file |-> file]

\* self.sessions.iter().position(|session| session.user_id == user_id)
Position(ss, user_id) ==
    IF \E i \in 1..Len(ss) : ss[i].user_id = user_id
    THEN CHOOSE i \in 1..Len(ss) :
            /\ ss[i].user_id = user_id
            /\ \A j \in 1..(i - 1) : ss[j].user_id # user_id
    ELSE 0

\* Vec::pop in place of Vec::remove(session_index)
RemoveLast(ss, i) == SubSeq(ss, 1, Len(ss) - 1)

\* Vec::remove
Remove(ss, i) == SubSeq(ss, 1, i - 1) \o SubSeq(ss, i + 1, Len(ss))

\* SessionsFile::open
Open ==
    /\ pc = "closed"
    /\ IF ReadOk(file)
       THEN LET p == Parse(file.data) IN
            IF p.ok
            THEN /\ sessions' = p.sessions
                 /\ pc' = "idle"
                 /\ lastOp' = Done("open", <<>>, <<>>, "Ok", <<>>)
                 /\ pre' = Snapshot
                 /\ UNCHANGED <<file, buf, call, prevOp>>
            ELSE \* expect("Sessions file is invalid JSON.")
                 /\ pc' = "panicked"
                 /\ lastOp' = Done("open", <<>>, <<>>, "CorruptState", <<>>)
                 /\ pre' = Snapshot
                 /\ UNCHANGED <<file, sessions, buf, call, prevOp>>
       ELSE \* any read error: create_dir_all, then write(&path, "[]")
            /\ sessions' = <<>>
            /\ buf' = EmptyList
            /\ call' = Done("open", <<>>, <<>>, "Ok", <<>>)
            /\ pre' = Snapshot
            /\ pc' = "write_create"
            /\ UNCHANGED <<file, lastOp, prevOp>>
    /\ UNCHANGED observed

\* get that answers with the first record whenever the account is present
GetFirstRecord(user_id) ==
    /\ pc = "idle"
    /\ LET i == Position(sessions, user_id) IN
       lastOp' = IF i # 0
                 THEN Done("get", user_id, <<>>, "Ok", <<sessions[1]>>)
                 ELSE Done("get", user_id, <<>>, "NotFound", <<>>)
    /\ prevOp' = lastOp
    /\ pre' = Snapshot
    /\ UNCHANGED <<file, pc, sessions, buf, call, observed>>

\* SessionsFile::get
Get(user_id) ==
    /\ pc = "idle"
    /\ LET i == Position(sessions, user_id) IN
       lastOp' = IF i # 0
                 THEN Done("get", user_id, <<>>, "Ok", <<sessions[i]>>)
                 ELSE Done("get", user_id, <<>>, "NotFound", <<>>)
    /\ prevOp' = lastOp
    /\ pre' = Snapshot
    /\ UNCHANGED <<file, pc, sessions, buf, call, observed>>

\* delete_session that forgets self.write()
DeleteSessionNoWrite(user_id) ==
    /\ pc = "idle"
    /\ pre' = Snapshot
    /\ LET i == Position(sessions, user_id) IN
       IF i # 0
       THEN /\ sessions' = Remove(sessions, i)
            /\ lastOp' = Done("delete_session", user_id, <<>>, "Ok", <<>>)
       ELSE /\ lastOp' = Done("delete_session", user_id, <<>>, "NotFound", <<>>)
            /\ UNCHANGED sessions
    /\ prevOp' = lastOp
    /\ UNCHANGED <<file, pc, buf, call, observed>>

\* SessionsFile::delete_session, up to its call of self.write()
DeleteSession(user_id) ==
    /\ pc = "idle"
    /\ pre' = Snapshot
    /\ LET i == Position(sessions, user_id) IN
       IF i # 0
       THEN /\ sessions' = Remove(sessions, i)
            /\ buf' = Serialize(sessions')
            /\ call' = Done("delete_session", user_id, <<>>, "Ok", <<>>)
            /\ pc' = "write_create"
            /\ UNCHANGED <<file, lastOp, prevOp>>
       ELSE /\ lastOp' = Done("delete_session", user_id, <<>>, "NotFound", <<>>)
            /\ prevOp' = lastOp
            /\ UNCHANGED <<file, pc, sessions, buf, call>>
    /\ UNCHANGED observed

\* new_session without the any() check: always push and write
NewSessionNoCheck(session) ==
    /\ pc = "idle"
    /\ pre' = Snapshot
    /\ sessions' = Append(sessions, session)
    /\ buf' = Serialize(sessions')
    /\ call' = Done("new_session", session.user_id, <<session>>, "Ok", <<>>)
    /\ pc' = "write_create"
    /\ UNCHANGED <<file, lastOp, prevOp, observed>>

\* new_session that replaces the record of an account already present
NewSessionUpsert(session) ==
    /\ pc = "idle"
    /\ pre' = Snapshot
    /\ LET i == Position(sessions, session.user_id) IN
       sessions' = IF i = 0 THEN Append(sessions, session)
                   ELSE [sessions EXCEPT ![i] = session]
    /\ buf' = Serialize(sessions')
    /\ call' = Done("new_session", session.user_id, <<session>>, "Ok", <<>>)
    /\ pc' = "write_create"
    /\ UNCHANGED <<file, lastOp, prevOp, observed>>

\* SessionsFile::new_session, up to its call of self.write()
NewSession(session) ==
    /\ pc = "idle"
    /\ pre' = Snapshot
    /\ IF ~ \E i \in 1..Len(sessions) : sessions[i].user_id = session.user_id
       THEN /\ sessions' = Append(sessions, session)
            /\ buf' = Serialize(sessions')
            /\ call' = Done("new_session", session.user_id, <<session>>, "Ok", <<>>)
            /\ pc' = "write_create"
            /\ UNCHANGED <<file, lastOp, prevOp>>
       ELSE /\ lastOp' = Done("new_session", session.user_id, <<session>>,
                              "AlreadyExists", <<>>)
            /\ prevOp' = lastOp
            /\ UNCHANGED <<file, pc, sessions, buf, call>>
    /\ UNCHANGED observed

\* fs::write, first half: File::create opens the path truncating it
WriteCreate ==
    /\ pc = "write_create"
    /\ file' = Text(<<>>)
    /\ call' = [call EXCEPT !.wrote = TRUE]
    /\ pc' = "write_data"
    /\ UNCHANGED <<sessions, buf, lastOp, prevOp, pre, observed>>

\* an fs::write that makes one write call and returns whatever it wrote
WriteDataOnce ==
    /\ pc = "write_data"
    /\ \E n \in (Len(file.data) + 1)..Len(buf) :
          /\ file' = Text(SubSeq(buf, 1, n))
          /\ pc' = "idle"
          /\ lastOp' = call
          /\ prevOp' = IF call.op = "open" THEN prevOp ELSE lastOp
          /\ call' = NoCall
    /\ UNCHANGED <<sessions, buf, pre, observed>>

\* fs::write, second half: write_all hands the buffer to the file in one or
\* more write calls; the call that writes the last byte returns to the
\* store operation, which returns to its caller
WriteData ==
    /\ pc = "write_data"
    /\ \E n \in (Len(file.data) + 1)..Len(buf) :
          /\ file' = Text(SubSeq(buf, 1, n))
          /\ IF n = Len(buf)
             THEN /\ pc' = "idle"
                  /\ lastOp' = call
                  /\ prevOp' = IF call.op = "open" THEN prevOp ELSE lastOp
                  /\ call' = NoCall
             ELSE UNCHANGED <<pc, lastOp, prevOp, call>>
    /\ UNCHANGED <<sessions, buf, pre, observed>>

\* fs::write returns an error (or the process is killed) and unwrap() panics
WriteFail ==
    /\ pc \in {"write_create", "write_data"}
    /\ pc' = "panicked"
    /\ UNCHANGED <<file, sessions, buf, call, lastOp, prevOp, pre, observed>>

\* the process ends; its SessionsFile is dropped
Exit ==
    /\ pc \in {"idle", "panicked"}
    /\ pc' = "closed"
    /\ sessions' = <<>>
    /\ buf' = <<>>
    /\ call' = NoCall
    /\ lastOp' = NoCall
    /\ prevOp' = NoCall
    /\ pre' = [sessions |-> <<>>, file |-> Absent]
    /\ UNCHANGED <<file, observed>>

NotRead == [content |-> Absent, during |-> "none"]

\* another process runs fs::read_to_string on the same path (its own open,
\* which reads the file once)
ReaderRead ==
    /\ observed = NotRead
    /\ observed' = [content |-> file,
                    during |-> IF pc = "write_data" THEN call.op ELSE "none"]
    /\ observed' # observed
    /\ UNCHANGED <<file, pc, sessions, buf, call, lastOp, prevOp, pre>>

----------------------------------------------------------------------------
(* Room catalog: src/src/lib.rs get_rooms_info;
   room resolver: src/src/export.rs get_room_index_by_identifier *)

MaxRooms == 2

RoomIdA == <<33, 97, 58, 115>>      \* "!a:s"
RoomIdB == <<33, 98, 58, 115>>      \* "!b:s"
RoomIdC == <<33, 99, 58, 115>>      \* "!c:s"
AliasA == <<35, 97, 58, 115>>       \* "#a:s"
AliasB == <<35, 98, 58, 115>>       \* "#b:s"
PlainName == <<98>>                 \* "b"
Unknown == <<122>>                  \* "z"

\* OwnedRoomId values: unique per room, always with the '!' sigil
RoomIds == {RoomIdA, RoomIdB, RoomIdC}
\* OwnedRoomAliasId values: always with the '#' sigil
RoomAliases == {AliasA, AliasB}
\* room names are free text: a name may spell a room id or an alias
RoomNames == {PlainName, RoomIdA, AliasA}

\* Option<T>: <<>> is None, <<v>> is Some(v)
Opt(S) == {<<>>} \cup {<<v>> : v \in S}

\* struct RoomWithCachedInfo, without the opaque room handle
RoomWithCachedInfo ==
    [id : RoomIds, name : Opt(RoomNames), canonical_alias : Opt(RoomAliases),
     alt_aliases : {<<>>, <<AliasA>>}]

\* what Client::joined_rooms() can yield: rooms with distinct ids, any order
JoinedRooms ==
    UNION { { q \in [1..n -> RoomWithCachedInfo] :
                \A i, j \in 1..n : i # j => q[i].id # q[j].id }
            : n \in 0..MaxRooms }

\* the comparator closure of rooms_info.sort_by(..)
RoomCmp(room_1, room_2) ==
    IF room_1.name # <<>> /\ room_2.name # <<>>
    THEN StrCmp(room_1.name[1], room_2.name[1])
    ELSE IF room_1.name # <<>> THEN "Greater"
    ELSE IF room_2.name # <<>> THEN "Less"
    ELSE IF room_1.canonical_alias # <<>> /\ room_2.canonical_alias # <<>>
    THEN StrCmp(room_1.canonical_alias[1], room_2.canonical_alias[1])
    ELSE IF room_1.canonical_alias # <<>> THEN "Greater"
    ELSE IF room_2.canonical_alias # <<>> THEN "Less"
    ELSE StrCmp(room_1.id, room_2.id)

\* slice::sort_by is a stable sort: insertion behind every element that is
\* not Greater
RECURSIVE InsertSorted(_, _)
InsertSorted(sorted, room) ==
    IF sorted = <<>> THEN <<room>>
    ELSE IF RoomCmp(Head(sorted), room) = "Greater" THEN <<room>> \o sorted
    ELSE <<Head(sorted)>> \o InsertSorted(Tail(sorted), room)

RECURSIVE SortBy(_)
SortBy(rooms) ==
    IF rooms = <<>> THEN <<>>
    ELSE InsertSorted(SortBy(SubSeq(rooms, 1, Len(rooms) - 1)), rooms[Len(rooms)])

\* Iterator::position over the rooms at the given indices: the first of
\* them, 0 for None (indices are 1-based here, 0-based in the code)
FirstPosition(indices) ==
    IF indices = {} THEN 0
    ELSE CHOOSE i \in indices : \A j \in indices : i <= j

IdIs(identifier, room_info) == room_info.id = identifier
CanonicalAliasIs(identifier, room_info) == room_info.canonical_alias = <<identifier>>
AltAliasIs(identifier, room_info) ==
    \E k \in 1..Len(room_info.alt_aliases) : room_info.alt_aliases[k] = identifier
NameIs(identifier, room_info) == room_info.name = <<identifier>>

\* Result<usize, RoomIndexRetrievalError>
OkIndex(index) == [ok |-> TRUE, index |-> index, err |-> "none", room_ids |-> <<>>]
ErrNoRooms ==
    [ok |-> FALSE, index |-> 0, err |-> "NoRoomsWithSpecifiedName", room_ids |-> <<>>]
ErrMultiple(room_ids) ==
    [ok |-> FALSE, index |-> 0, err |-> "MultipleRoomsWithSpecifiedName",
     room_ids |-> room_ids]
NoResult == [ok |-> FALSE, index |-> 0, err |-> "none", room_ids |-> <<>>]

\* resolution by name that takes the first room of that name
ResolveByNameFirst(rooms, ident) ==
    LET index == FirstPosition({i \in 1..Len(rooms) : NameIs(ident, rooms[i])}) IN
    IF index = 0 THEN ErrNoRooms ELSE OkIndex(index)

\* the else branch of get_room_index_by_identifier: resolution by name
ResolveByName(rooms, ident) ==
    LET name_matches == SelectSeq(rooms, LAMBDA r : NameIs(ident, r)) IN
    IF Len(name_matches) = 0 THEN ErrNoRooms
    ELSE IF Len(name_matches) = 1
    THEN OkIndex(FirstPosition({i \in 1..Len(rooms) : NameIs(ident, rooms[i])}))
    ELSE ErrMultiple([k \in 1..Len(name_matches) |-> name_matches[k].id])

\* a resolver that takes the first room matching in any of its fields
FirstRoomMatchingAnyField(rooms, ident) ==
    LET index == FirstPosition({i \in 1..Len(rooms) :
                    \/ IdIs(ident, rooms[i]) \/ CanonicalAliasIs(ident, rooms[i])
                    \/ AltAliasIs(ident, rooms[i]) \/ NameIs(ident, rooms[i])}) IN
    IF index # 0 THEN OkIndex(index) ELSE ErrNoRooms

\* get_room_index_by_identifier
GetRoomIndexByIdentifier(rooms, ident) ==
    LET by_id == FirstPosition({i \in 1..Len(rooms) : IdIs(ident, rooms[i])})
        by_canonical ==
            FirstPosition({i \in 1..Len(rooms) : CanonicalAliasIs(ident, rooms[i])})
        by_alt == FirstPosition({i \in 1..Len(rooms) : AltAliasIs(ident, rooms[i])})
    IN  IF by_id # 0 THEN OkIndex(by_id)
        ELSE IF by_canonical # 0 THEN OkIndex(by_canonical)
        ELSE IF by_alt # 0 THEN OkIndex(by_alt)
        ELSE ResolveByName(rooms, ident)

\* the identifiers a caller can hand to export
Identifiers == RoomIds \cup RoomAliases \cup RoomNames \cup {Unknown}

\* get_rooms_info: snapshot the joined rooms and sort them
GetRoomsInfo ==
    /\ rpc = "joined"
    /\ rooms_info' = SortBy(joined)
    /\ rpc' = "catalog"
    /\ UNCHANGED <<joined, room_ident, resolved>>

\* export, one turn of `for room_identifier in rooms` up to the match on
\* get_room_index_by_identifier
Resolve(room_identifier) ==
    /\ rpc \in {"catalog", "resolved"}
    /\ room_ident' = room_identifier
    /\ resolved' = GetRoomIndexByIdentifier(rooms_info, room_identifier)
    /\ rpc' = "resolved"
    /\ UNCHANGED <<joined, rooms_info>>

----------------------------------------------------------------------------
(* Export file names: src/src/export.rs format_export_filename *)

\* str::find(':'): the first index of the character, 0 for None
IndexOf(s, c) ==
    IF \E i \in 1..Len(s) : s[i] = c
    THEN CHOOSE i \in 1..Len(s) : s[i] = c /\ \A j \in 1..(i - 1) : s[j] # c
    ELSE 0

\* str::split_once(':').unwrap(): the text before and after the first colon
SplitOnce(s) ==
    LET i == IndexOf(s, 58) IN
    <<SubSeq(s, 1, i - 1), SubSeq(s, i + 1, Len(s))>>

\* the literals of the format! strings
OpenBracket == <<32, 91>>       \* " ["
CommaSpace == <<44, 32>>        \* ", "
CloseBracket == <<93>>          \* "]"

\* format_export_filename
FormatExportFilename(room_info) ==
    LET nonserver_id_component == SplitOnce(room_info.id)[1]
        server == SplitOnce(room_info.id)[2]
    IN  IF room_info.name # <<>> /\ room_info.canonical_alias # <<>>
        THEN room_info.name[1] \o OpenBracket
                \o SplitOnce(room_info.canonical_alias[1])[1] \o CommaSpace
                \o nonserver_id_component \o CommaSpace \o server \o CloseBracket
        ELSE IF room_info.name # <<>>
        THEN room_info.name[1] \o OpenBracket
                \o nonserver_id_component \o CommaSpace \o server \o CloseBracket
        ELSE IF room_info.canonical_alias # <<>>
        THEN SplitOnce(room_info.canonical_alias[1])[1] \o OpenBracket
                \o nonserver_id_component \o CommaSpace \o server \o CloseBracket
        ELSE nonserver_id_component \o OpenBracket \o server \o CloseBracket

\* the room of the specification's example: "Team", "#team:example.com",
\* "!xyz:example.com"
TeamRoom ==
    [id |-> <<33, 120, 121, 122, 58,
              101, 120, 97, 109, 112, 108, 101, 46, 99, 111, 109>>,
     name |-> << <<84, 101, 97, 109>> >>,
     canonical_alias |-> << <<35, 116, 101, 97, 109, 58,
                              101, 120, 97, 109, 112, 108, 101, 46, 99, 111, 109>> >>,
     alt_aliases |-> <<>>]

\* the rooms format_export_filename is applied to
FilenameRooms == RoomWithCachedInfo \cup {TeamRoom}

NoFilename == [room |-> TeamRoom, basename |-> <<>>, done |-> FALSE]

\* export: let base_output_filename = format_export_filename(room_to_export_info)
FormatFilename ==
    /\ ~ fname.done
    /\ fname' = [fname EXCEPT !.basename = FormatExportFilename(fname.room),
                              !.done = TRUE]

----------------------------------------------------------------------------
(* Export pipeline: src/src/export.rs export, src/src/bin/trace-cli.rs export *)

\* bounds of the model; the program's values are 10_000_000 events
\* (export.rs 201) and 1_000 events per page (export.rs 197)
HardCap == 3
PageLimit == 2
MaxEvents == 2

\* str::to_lowercase on ASCII text
ToLowercase(s) == [i \in 1..Len(s) |-> IF s[i] \in 65..90 THEN s[i] + 32 ELSE s[i]]

FmtJson == <<106, 115, 111, 110>>           \* "json"
FmtDotJson == <<46>> \o FmtJson             \* ".json"
FmtTxt == <<116, 120, 116>>                 \* "txt"
FmtDotTxt == <<46>> \o FmtTxt               \* ".txt"
FmtUpperTxt == <<46, 84, 88, 84>>           \* ".TXT", as typed by a user
FmtPdf == <<112, 100, 102>>                 \* "pdf", as typed by a user

\* enum ExportOutputFormat
ExportOutputFormat == {"Json", "Txt"}

\* trace-cli export: one arm of the match on format.to_lowercase()
ParseFormat(format) ==
    LET f == ToLowercase(format) IN
    IF f \in {FmtJson, FmtDotJson} THEN "Json"
    ELSE IF f \in {FmtTxt, FmtDotTxt} THEN "Txt"
    ELSE "invalid"

\* trace-cli export: the set built by the loop over config.formats, with the
\* Json default for an empty set
ExportFormats(formats) ==
    LET parsed == {ParseFormat(formats[i]) : i \in 1..Len(formats)} IN
    IF parsed = {} THEN {"Json"} ELSE parsed

\* add_at_to_user_id_if_applicable
AddAtToUserIdIfApplicable(user_id) ==
    IF user_id # <<>> /\ user_id[1] = 64 THEN user_id ELSE <<64>> \o user_id

\* str::split(':'): the pieces between the colons
RECURSIVE Split(_)
Split(s) ==
    LET i == IndexOf(s, 58) IN
    IF i = 0 THEN <<s>>
    ELSE <<SubSeq(s, 1, i - 1)>> \o Split(SubSeq(s, i + 1, Len(s)))

\* Iterator::rev
Rev(q) == [i \in 1..Len(q) |-> q[Len(q) + 1 - i]]

\* user_id_to_crypto_store_path: the path as its list of components
UserIdToCryptoStorePath(user_id) ==
    LET atless_user_id == IF user_id # <<>> /\ user_id[1] = 64
                          THEN SubSeq(user_id, 2, Len(user_id))
                          ELSE user_id
    IN  Rev(Split(atless_user_id))

\* how a timeline event deserializes: "typed" as AnyTimelineEvent (and so as
\* a JSON value too), "value" as a serde_json::Value only, "none" as neither
EventKinds == {"typed", "value", "none"}

\* the histories a room can have on the server; an event is its position in
\* the history and its kind
Timelines ==
    UNION {[1..n -> EventKinds] : n \in 0..MaxEvents}
TimelineEvent(history, k) == [id |-> k, kind |-> history[k]]

\* the rooms the exporting account has joined
ExportJoined ==
    << [id |-> RoomIdA, name |-> <<PlainName>>, canonical_alias |-> <<AliasA>>,
        alt_aliases |-> <<>>],
       [id |-> RoomIdB, name |-> <<PlainName>>, canonical_alias |-> <<>>,
        alt_aliases |-> <<>>] >>

\* the room identifiers given on the command line: an alias of the first
\* room, the name both rooms carry, and a text no room carries
BatchIdentifiers == {AliasA, PlainName, Unknown}
Batches ==
    {<<>>} \cup {<<x>> : x \in BatchIdentifiers}
        \cup {<<x, AliasA>> : x \in BatchIdentifiers}
        \cup {<<AliasA, Unknown>>, <<PlainName, Unknown>>}

\* the -f arguments given on the command line
FormatArgs == {<<>>, <<FmtUpperTxt>>, <<FmtJson, FmtUpperTxt>>, <<FmtPdf>>}

NoExport ==
    [step |-> "off", user_id |-> <<>>, rooms |-> <<>>, format_args |-> <<>>,
     formats |-> {},
     output |-> <<>>, client |-> "none", i |-> 0, events |-> <<>>,
     last_end_token |-> <<>>, total_messages |-> 0, pages |-> <<>>,
     tokens |-> <<>>, snap |-> {}, skipped |-> {}, fetched |-> {}, written |-> {},
     path0 |-> <<>>, result |-> "none", cause |-> "none"]
NoTimeline == [r \in {RoomIdA, RoomIdB} |-> <<>>]
\* the output path and its parent directory: "dir", "file" or "absent"
NoOutput == [path |-> "dir", parent |-> "dir", files |-> {}]

\* the handler returns or panics
ExportEnds(result, cause) ==
    [ex EXCEPT !.step = "done", !.result = result, !.cause = cause]

\* an export that goes on to log in even when no room was asked for
NoEarlyReturn(rooms) == FALSE

\* trace-cli export: if export_room_count == 0 { .. return Ok(()) }
EarlyReturn(rooms) == Len(rooms) = 0

\* trace-cli export, up to the call of nonfirst_login: the formats are
\* parsed first, then an empty room list returns early
CliExport(user_id, rooms, formats, output) ==
    /\ ex.step = "off"
    /\ LET args == [ex EXCEPT !.user_id = user_id, !.rooms = rooms,
                              !.format_args = formats, !.output = output,
                              !.path0 = <<fsys.path, fsys.parent>>]
       IN  IF \E k \in 1..Len(formats) : ParseFormat(formats[k]) = "invalid"
           THEN ex' = [args EXCEPT !.step = "done", !.result = "panic",
                                   !.cause = "InvalidFormat"]
           ELSE IF EarlyReturn(rooms)
           THEN ex' = [args EXCEPT !.step = "done", !.result = "Ok",
                                   !.formats = ExportFormats(formats)]
           ELSE ex' = [args EXCEPT !.step = "login",
                                   !.formats = ExportFormats(formats)]
    /\ UNCHANGED <<timeline, fsys, net, dirs>>

\* the sqlite store of a built client: the directory at store_path exists,
\* with its ancestors
CreateDirAll(ds, path) == ds \cup {SubSeq(path, 1, k) : k \in 1..Len(path)}

\* the ways nonfirst_login can end once the session record is found: the
\* client cannot be built, the session cannot be restored, or Ok(client)
NonfirstLoginOutcomes == {"build_err", "restore_err", "ok"}

\* trace-cli export: nonfirst_login(&config.user_id, sessions_file, &store_path)
ExportLogin ==
    /\ ex.step = "login"
    /\ LET normalized_user_id == AddAtToUserIdIfApplicable(ex.user_id)
           store_path == UserIdToCryptoStorePath(ex.user_id)
       IN  IF Position(sessions, normalized_user_id) = 0
           THEN \* sessions_file.get(..).unwrap()
                /\ ex' = ExportEnds("panic", "NoSession")
                /\ UNCHANGED <<net, dirs>>
           ELSE \E outcome \in NonfirstLoginOutcomes :
                /\ net' = net \cup {"discover"}
                /\ dirs' = IF outcome = "build_err" THEN dirs
                           ELSE CreateDirAll(dirs, store_path)
                /\ ex' = IF outcome = "ok"
                         THEN [ex EXCEPT !.step = "sync", !.client = "restored"]
                         ELSE ExportEnds("Err", outcome)
    /\ UNCHANGED <<timeline, fsys>>

\* trace-cli export: client.sync_once(..).await?
ExportSync ==
    /\ ex.step = "sync"
    /\ net' = net \cup {"sync"}
    /\ \E ok \in BOOLEAN :
        ex' = IF ok THEN [ex EXCEPT !.step = "lib"] ELSE ExportEnds("Err", "sync_err")
    /\ UNCHANGED <<timeline, fsys, dirs>>

\* an export that takes any existing output path for a directory
AcceptsAnyPath(fs) == FALSE

\* trace::export: path.exists() and !path.is_dir()
NotADirectory(fs) == fs.path = "file"

\* fs::create_dir_all: the directory and its missing ancestors
CreateOutputDirAll(fs) == [fs EXCEPT !.path = "dir", !.parent = "dir"]

\* trace::export up to the loop: the output path is validated or created,
\* then get_rooms_info
LibExportStart ==
    /\ ex.step = "lib"
    /\ IF ex.output # <<>> /\ NotADirectory(fsys)
       THEN /\ ex' = ExportEnds("panic", "OutputNotDir")
            /\ UNCHANGED <<fsys, roomVars>>
       ELSE \E created \in (IF ex.output # <<>> /\ fsys.path = "absent"
                            THEN BOOLEAN ELSE {TRUE}) :
            IF created
            THEN /\ fsys' = IF ex.output # <<>> /\ fsys.path = "absent"
                             THEN CreateOutputDirAll(fsys) ELSE fsys
                 /\ GetRoomsInfo
                 /\ ex' = [ex EXCEPT !.step = "loop", !.i = 1]
            ELSE \* create_dir_all(path).unwrap()
                 /\ ex' = ExportEnds("panic", "CreateDir")
                 /\ UNCHANGED <<fsys, roomVars>>
    /\ UNCHANGED <<timeline, net, dirs>>

\* an unresolvable identifier that aborts the batch
UnresolvedAborts == ExportEnds("Err", "Unresolved")

\* trace::export: the Err arms of the match on get_room_index_by_identifier:
\* println! and continue
UnresolvedContinues == [ex EXCEPT !.skipped = @ \cup {ex.i}, !.i = @ + 1]

\* trace::export: one turn of `for room_identifier in rooms` up to the
\* pagination loop
ExportNextRoom ==
    /\ ex.step = "loop"
    /\ IF ex.i > Len(ex.rooms)
       THEN /\ ex' = ExportEnds("Ok", "none")
            /\ UNCHANGED roomVars
       ELSE /\ Resolve(ex.rooms[ex.i])
            /\ IF GetRoomIndexByIdentifier(rooms_info, ex.rooms[ex.i]).ok
               THEN ex' = [ex EXCEPT !.step = "fetch", !.events = <<>>,
                                     !.last_end_token = <<>>,
                                     !.total_messages = 0, !.pages = <<>>,
                                     !.tokens = <<>>, !.snap = fsys.files]
               ELSE ex' = UnresolvedContinues
    /\ UNCHANGED <<timeline, fsys, net, dirs>>

\* the room the current identifier resolved to
RoomToExportInfo == rooms_info[resolved.index]

Min(a, b) == IF a < b THEN a ELSE b

\* a pagination loop that keeps only the page it received last
VecAppendOverwrites(events, chunk) == chunk

\* Vec::append: events.append(&mut messages.chunk)
VecAppend(events, chunk) == events \o chunk

\* a pagination loop whose cap check is off by one
LoopBreaksLate(messages_length, total_messages) ==
    messages_length = 0 \/ total_messages > HardCap + 1

\* a pagination loop without the hard cap
BreaksOnEmptyPageOnly(messages_length, total_messages) == messages_length = 0

\* trace::export: if messages_length == 0 || total_messages > 10_000_000
LoopBreaks(messages_length, total_messages) ==
    messages_length = 0 \/ total_messages > HardCap

\* a failed page request taken for the end of the history
FetchFailureBreaks ==
    [ex EXCEPT !.step = "write", !.cause = "Fetch", !.fetched = @ \cup {ex.i}]

\* trace::export: room.messages(messages_options).await? on Err
FetchFailure ==
    [ExportEnds("Err", "Fetch") EXCEPT !.fetched = @ \cup {ex.i}]

\* trace::export: one turn of the pagination loop.  The server answers a
\* request from a token with the events that follow it, at most PageLimit of
\* them, and the token of the page's end; at the end of the history it
\* answers with an empty page, and the end token of the last page may be
\* absent, so that the next request starts from the beginning again
FetchPage ==
    /\ ex.step = "fetch"
    /\ net' = net \cup {"messages"}
    /\ \/ ex' = FetchFailure
       \/ LET history == timeline[RoomToExportInfo.id]
              start == IF ex.last_end_token = <<>> THEN 0 ELSE ex.last_end_token[1]
              remaining == Len(history) - start
          IN  \E n \in (IF remaining = 0 THEN {0} ELSE 1..Min(PageLimit, remaining)) :
              \E end \in (IF start + n < Len(history) THEN {<<start + n>>}
                          ELSE {<<start + n>>, <<>>}) :
              LET chunk == [k \in 1..n |-> TimelineEvent(history, start + k)]
                  total_messages == ex.total_messages + n
                  received == [ex EXCEPT !.total_messages = total_messages,
                                         !.pages = @ \o <<chunk>>,
                                         !.tokens = @ \o <<<<ex.last_end_token, end>>>>,
                                         !.fetched = @ \cup {ex.i}]
              IN  ex' = IF LoopBreaks(n, total_messages)
                        THEN [received EXCEPT !.step = "write"]
                        ELSE [received EXCEPT !.events = VecAppend(@, chunk),
                                              !.last_end_token = end]
    /\ UNCHANGED <<timeline, fsys, dirs, roomVars>>

\* messages_to_json: every event as a serde_json::Value, in order; the
\* expect panics on an event that is not even a JSON value
JsonValue(event) == [value |-> event.id]
MessagesToJson(events) ==
    [ok |-> \A k \in 1..Len(events) : events[k].kind # "none",
     text |-> [k \in 1..Len(events) |-> JsonValue(events[k])]]

\* messages_to_txt: the line pushed for one event
SkippedLine == [text |-> "[Message skipped due to deserialization failure]", id |-> 0]
TxtLine(event) ==
    IF event.kind = "typed" THEN [text |-> "event", id |-> event.id] ELSE SkippedLine

\* the ways messages_to_txt can end on a batch with an event that
\* deserializes: Ok, the Err of get_member_no_sync(..).await?, or the panic
\* on a timestamp DateTime::from_timestamp_millis cannot convert
TxtOutcomes == {"ok", "Member", "Timestamp"}

\* a text rendering that skips an undeserializable event silently
RECURSIVE MessagesToTxtDropsSkipped(_)
MessagesToTxtDropsSkipped(events) ==
    IF events = <<>> THEN <<>>
    ELSE (IF Head(events).kind = "typed" THEN <<TxtLine(Head(events))>> ELSE <<>>)
            \o MessagesToTxtDropsSkipped(Tail(events))

\* messages_to_txt, when every member lookup succeeds
MessagesToTxt(events) == [k \in 1..Len(events) |-> TxtLine(events[k])]

\* fs::write(path, content) of a file under the output directory
FsWrite(files, dir, name, content) ==
    {f \in files : ~ (f.dir = dir /\ f.name = name)}
        \cup {[dir |-> dir, name |-> name, content |-> content]}

\* trace::export: the turn goes on to the next identifier
RoomExported ==
    [ex EXCEPT !.step = "loop", !.i = @ + 1, !.written = @ \cup {ex.i},
               !.pages = <<>>, !.tokens = <<>>, !.snap = {},
               !.last_end_token = <<>>]

\* trace::export after the pagination loop: the JSON file, then the text file
WriteFiles ==
    /\ ex.step = "write"
    /\ LET base_output_filename == FormatExportFilename(RoomToExportInfo)
           json == MessagesToJson(ex.events)
           with_json ==
               IF "Json" \in ex.formats
               THEN FsWrite(fsys.files, ex.output,
                            base_output_filename \o FmtDotJson, json.text)
               ELSE fsys.files
       IN  IF "Json" \in ex.formats /\ ~ json.ok
           THEN /\ ex' = ExportEnds("panic", "JsonValue")
                /\ UNCHANGED fsys
           ELSE IF "Txt" \in ex.formats
           THEN \E outcome \in
                    (IF \E k \in 1..Len(ex.events) : ex.events[k].kind = "typed"
                     THEN TxtOutcomes ELSE {"ok"}) :
                IF outcome = "ok"
                THEN /\ fsys' = [fsys EXCEPT !.files =
                            FsWrite(with_json, ex.output,
                                    base_output_filename \o FmtDotTxt,
                                    MessagesToTxt(ex.events))]
                     /\ ex' = RoomExported
                ELSE /\ fsys' = [fsys EXCEPT !.files = with_json]
                     /\ ex' = ExportEnds(IF outcome = "Member" THEN "Err" ELSE "panic",
                                         outcome)
           ELSE /\ fsys' = [fsys EXCEPT !.files = with_json]
                /\ ex' = RoomExported
    /\ UNCHANGED <<timeline, net, dirs, roomVars>>

----------------------------------------------------------------------------
(* Session lifecycle: src/src/bin/trace-cli.rs session_login, session_logout;
   src/src/lib.rs first_login, nonfirst_login, logout_local *)

\* the account ids given on the command line: with and without the '@'
UserArgs == UserIds \cup {Tail(u) : u \in UserIds}

\* the login flows a homeserver can offer
LoginTypes == {"Password", "Sso"}

NoHandler ==
    [cmd |-> "none", step |-> "off", user_id |-> <<>>, session_name |-> <<>>,
     stored |-> FALSE, flows |-> <<>>, remote |-> "none", syncs |-> 0,
     sessions0 |-> <<>>, file0 |-> Absent, dirs0 |-> {},
     result |-> "none", cause |-> "none"]

\* a handler starts: its arguments, and the store and cache directories as
\* they are at that moment
Started(cmd, user_id, session_name) ==
    [NoHandler EXCEPT !.cmd = cmd, !.user_id = user_id,
                      !.session_name = session_name,
                      !.stored = Position(sessions,
                                     AddAtToUserIdIfApplicable(user_id)) # 0,
                      !.sessions0 = sessions, !.file0 = file, !.dirs0 = dirs]

\* the handler returns or panics
HandlerEnds(h, result, cause) ==
    [h EXCEPT !.step = "done", !.result = result, !.cause = cause]

\* a session_login that does not look the account up in the store
NeverLoggedIn(normalized_user_id) == FALSE

\* session_login: sessions_file.get(&normalized_user_id).is_ok()
AlreadyLoggedIn(normalized_user_id) == Position(sessions, normalized_user_id) # 0

\* trace-cli session_login up to the call of first_login: the check of the
\* store, the password prompt, and the client built on the cache directory
SessionLogin(user_id, session_name) ==
    /\ cli.cmd = "none"
    /\ pc = "idle"
    /\ LET store_path == UserIdToCryptoStorePath(user_id)
           normalized_user_id == AddAtToUserIdIfApplicable(user_id)
           h == Started("login", user_id, session_name)
       IN  IF AlreadyLoggedIn(normalized_user_id)
           THEN /\ cli' = HandlerEnds(h, "panic", "AlreadyLoggedIn")
                /\ UNCHANGED <<net, dirs>>
           ELSE \E outcome \in {"password_err", "build_err", "ok"} :
                /\ net' = IF outcome = "password_err" THEN net
                          ELSE net \cup {"discover"}
                /\ dirs' = IF outcome = "ok" THEN CreateDirAll(dirs, store_path)
                           ELSE dirs
                /\ cli' = IF outcome = "ok" THEN [h EXCEPT !.step = "login_types"]
                          ELSE IF outcome = "password_err"
                          THEN HandlerEnds(h, "panic", outcome)
                          ELSE HandlerEnds(h, "Err", outcome)

\* a first_login that logs in with a password whatever the server offers
AnyFlow(flows) == TRUE

\* first_login: supported_login_types.iter().any(|t| matches!(t, Password(_)))
OffersPassword(flows) == "Password" \in flows

\* first_login: auth.get_login_types().await?.flows and the choice on them
FirstLoginTypes ==
    /\ cli.cmd = "login" /\ cli.step = "login_types"
    /\ net' = net \cup {"get_login_types"}
    /\ \/ cli' = HandlerEnds(cli, "Err", "login_types_err")
       \/ \E flows \in SUBSET LoginTypes :
            cli' = IF OffersPassword(flows)
                   THEN [cli EXCEPT !.step = "login", !.flows = <<flows>>]
                   ELSE HandlerEnds([cli EXCEPT !.flows = <<flows>>],
                                    "panic", "UnsupportedAuthMethod")
    /\ UNCHANGED dirs

\* a first_login that stores a session record whether or not the login
\* request succeeded
FirstLoginRequestStoresAnyway ==
    /\ cli.cmd = "login" /\ cli.step = "login"
    /\ pc = "idle"
    /\ net' = net \cup {"login"}
    /\ \E ok \in BOOLEAN :
       \E login_result \in
                {r \in Session : r.user_id = AddAtToUserIdIfApplicable(cli.user_id)} :
          /\ NewSession(login_result)
          /\ cli' = IF ok THEN [cli EXCEPT !.step = "storing"]
                    ELSE HandlerEnds(cli, "Err", "login_err")
    /\ UNCHANGED dirs

\* first_login: the login request and, on its success,
\* sessions_file.new_session(..).unwrap() up to the write of the file
FirstLoginRequest ==
    /\ cli.cmd = "login" /\ cli.step = "login"
    /\ pc = "idle"
    /\ net' = net \cup {"login"}
    /\ \/ /\ cli' = HandlerEnds(cli, "Err", "login_err")
          /\ UNCHANGED storeVars
       \/ \E login_result \in
                {r \in Session : r.user_id = AddAtToUserIdIfApplicable(cli.user_id)} :
          /\ NewSession(login_result)
          /\ cli' = IF pc' = "write_create"
                    THEN [cli EXCEPT !.step = "storing"]
                    ELSE HandlerEnds(cli, "panic", "AlreadyExists")
    /\ UNCHANGED dirs

\* first_login after new_session returned: the wait for the e2ee tasks and
\* client.sync_once(..).await?
FirstLoginSync ==
    /\ cli.cmd = "login" /\ cli.step = "storing"
    /\ pc = "idle"
    /\ net' = net \cup {"sync"}
    /\ \E ok \in BOOLEAN :
        cli' = IF ok THEN HandlerEnds([cli EXCEPT !.syncs = @ + 1], "Ok", "none")
               ELSE HandlerEnds([cli EXCEPT !.syncs = @ + 1], "Err", "sync_err")
    /\ UNCHANGED dirs

\* Path::starts_with
IsPrefix(p, q) == Len(p) <= Len(q) /\ SubSeq(q, 1, Len(p)) = p

\* Path::parent
Parent(path) == SubSeq(path, 1, Len(path) - 1)

\* fs::remove_dir_all
RemoveDirAll(ds, path) == {d \in ds : ~ IsPrefix(path, d)}

\* logout_local: the cache directory is removed, and its parent with it when
\* the parent is left empty
RemoveStore(ds, store_path) ==
    LET removed == RemoveDirAll(ds, store_path)
        store_path_parent == Parent(store_path)
    IN  IF \E d \in removed : d # store_path_parent /\ IsPrefix(store_path_parent, d)
        THEN removed
        ELSE RemoveDirAll(removed, store_path_parent)

\* trace-cli session_logout up to the remote logout:
\* nonfirst_login(&config.user_id, sessions_file, &store_path)
SessionLogout(user_id) ==
    /\ cli.cmd = "none"
    /\ pc = "idle"
    /\ LET store_path == UserIdToCryptoStorePath(user_id)
           normalized_user_id == AddAtToUserIdIfApplicable(user_id)
           h == Started("logout", user_id, <<>>)
       IN  IF Position(sessions, normalized_user_id) = 0
           THEN \* sessions_file.get(..).unwrap()
                /\ cli' = HandlerEnds(h, "panic", "NoSession")
                /\ UNCHANGED <<net, dirs>>
           ELSE \E outcome \in NonfirstLoginOutcomes :
                /\ net' = net \cup {"discover"}
                /\ dirs' = IF outcome = "build_err" THEN dirs
                           ELSE CreateDirAll(dirs, store_path)
                /\ cli' = IF outcome = "ok"
                          THEN [h EXCEPT !.step = "remote"]
                          ELSE [h EXCEPT !.step = "local", !.remote = outcome]

\* session_logout: client.matrix_auth().logout().await; an error is printed
LogoutRemote ==
    /\ cli.cmd = "logout" /\ cli.step = "remote"
    /\ net' = net \cup {"logout"}
    /\ \E ok \in BOOLEAN :
        cli' = [cli EXCEPT !.step = "local",
                           !.remote = IF ok THEN "ok" ELSE "logout_err"]
    /\ UNCHANGED dirs

\* logout_local(&config.user_id, sessions_file, &store_path) up to the write
\* of the file by delete_session
LogoutLocal ==
    /\ cli.cmd = "logout" /\ cli.step = "local"
    /\ pc = "idle"
    /\ LET store_path == UserIdToCryptoStorePath(cli.user_id) IN
       IF store_path \notin dirs
       THEN \* remove_dir_all(store_path)?
            /\ cli' = HandlerEnds(cli, "Err", "remove_dir_err")
            /\ UNCHANGED <<dirs, storeVars>>
       ELSE /\ dirs' = RemoveStore(dirs, store_path)
            /\ DeleteSession(cli.user_id)
            /\ cli' = IF pc' = "write_create"
                      THEN [cli EXCEPT !.step = "deleting"]
                      ELSE \* delete_session(user_id).unwrap()
                           HandlerEnds(cli, "panic", "NotFound")
    /\ UNCHANGED net

\* session_logout after logout_local returned Ok
LogoutReturns ==
    /\ cli.cmd = "logout" /\ cli.step = "deleting"
    /\ pc = "idle"
    /\ cli' = HandlerEnds(cli, "Ok", "none")
    /\ UNCHANGED <<net, dirs>>

----------------------------------------------------------------------------
(* Commands that restore a client: src/src/lib.rs nonfirst_login,
   list_sessions; src/src/bin/trace-cli.rs export, list_rooms, session_list,
   session_rename, session_logout, session_verify *)

\* the commands that call nonfirst_login, and the first protocol call each
\* of them makes on the client it gets back
ClientCommands ==
    {"export", "list_rooms", "session_list", "session_rename",
     "session_logout", "session_verify"}

FirstCall(cmd) ==
    CASE cmd = "export" -> "sync_once"
      [] cmd = "list_rooms" -> "sync_once"
      [] cmd = "session_list" -> "devices"
      [] cmd = "session_rename" -> "rename_device"
      [] cmd = "session_logout" -> "logout"
      [] cmd = "session_verify" -> "sync"

\* the account id list_rooms hands to nonfirst_login is normalized by the
\* handler, the other handlers hand over the argument as given
LoginArg(cmd, user_id) ==
    IF cmd = "list_rooms" THEN AddAtToUserIdIfApplicable(user_id) ELSE user_id

NoTasks ==
    [cmd |-> "none", run |-> <<>>, order |-> <<>>, result |-> "none",
     value |-> <<>>]

\* one future that runs nonfirst_login and then uses the client
NewTask(user_id, store_path) ==
    [user_id |-> user_id, store_path |-> store_path, step |-> "build",
     restored |-> FALSE, waited |-> FALSE, handle |-> FALSE, called |-> FALSE,
     name |-> <<>>, cause |-> "none"]

RECURSIVE ListTasks(_)
ListTasks(ss) ==
    IF ss = <<>> THEN <<>>
    ELSE <<NewTask(Head(ss).user_id, UserIdToCryptoStorePath(Head(ss).user_id))>>
         \o ListTasks(Tail(ss))

\* a handler starts and reaches its call of nonfirst_login; list_sessions
\* creates one future per stored session, in the order of the store
ClientCommand(cmd, user_id) ==
    /\ tasks.cmd = "none"
    /\ pc = "idle"
    /\ tasks' = [NoTasks EXCEPT
                   !.cmd = cmd,
                   !.run = IF cmd = "session_list" THEN ListTasks(sessions)
                           ELSE <<NewTask(LoginArg(cmd, user_id),
                                          UserIdToCryptoStorePath(user_id))>>]
    /\ UNCHANGED <<net, dirs>>

\* the future is finished: its place in the order of completion; a command
\* with a single future returns what the future returned
Finished(t, task, result) ==
    [tasks EXCEPT !.run[t] = task, !.order = @ \o <<t>>,
                  !.result = IF tasks.cmd = "session_list" THEN @ ELSE result]

\* the process panics: every future stops where it is
Panicked(t, cause) ==
    [tasks EXCEPT !.run[t].step = "panic", !.run[t].cause = cause,
                  !.result = "panic"]

\* nonfirst_login up to Client::builder()...build().await?: the lookup in
\* the store (unwrap), UserId::parse, and the client on the cache directory
NonfirstLoginBuild(t) ==
    /\ tasks.result = "none"
    /\ t \in DOMAIN tasks.run
    /\ tasks.run[t].step = "build"
    /\ LET task == tasks.run[t]
           normalized_user_id == AddAtToUserIdIfApplicable(task.user_id)
       IN  IF Position(sessions, normalized_user_id) = 0
           THEN /\ tasks' = Panicked(t, "NotFound")
                /\ UNCHANGED <<net, dirs>>
           ELSE /\ net' = net \cup {"discover"}
                /\ \/ /\ tasks' = [tasks EXCEPT !.run[t].step = "restore"]
                      /\ dirs' = CreateDirAll(dirs, task.store_path)
                   \/ /\ tasks' = Finished(t, [task EXCEPT !.step = "failed",
                                                      !.cause = "build_err"],
                                           "Err")
                      /\ UNCHANGED dirs

\* a nonfirst_login that hands the client back as soon as the session is
\* restored
NonfirstLoginRestoreReturns(t) ==
    /\ tasks.result = "none"
    /\ t \in DOMAIN tasks.run
    /\ tasks.run[t].step = "restore"
    /\ tasks' = [tasks EXCEPT !.run[t].step = "ready",
                              !.run[t].restored = TRUE,
                              !.run[t].handle = TRUE]
    /\ UNCHANGED <<net, dirs>>

\* nonfirst_login: client.matrix_auth().restore_session(..).await?
NonfirstLoginRestore(t) ==
    /\ tasks.result = "none"
    /\ t \in DOMAIN tasks.run
    /\ tasks.run[t].step = "restore"
    /\ \/ tasks' = [tasks EXCEPT !.run[t].step = "wait",
                                 !.run[t].restored = TRUE]
       \/ tasks' = Finished(t, [tasks.run[t] EXCEPT !.step = "failed",
                                                    !.cause = "restore_err"],
                            "Err")
    /\ UNCHANGED <<net, dirs>>

\* nonfirst_login: wait_for_e2ee_initialization_tasks().await; Ok(client)
NonfirstLoginWait(t) ==
    /\ tasks.result = "none"
    /\ t \in DOMAIN tasks.run
    /\ tasks.run[t].step = "wait"
    /\ tasks' = [tasks EXCEPT !.run[t].step = "ready",
                              !.run[t].waited = TRUE,
                              !.run[t].handle = TRUE]
    /\ UNCHANGED <<net, dirs>>

\* what the server can answer to the first call: an error, or success; for
\* devices, success with a named device, an unnamed one, or a list that
\* lacks the stored device
CallOutcomes(cmd) ==
    IF cmd = "session_list" THEN {"err", "named", "unnamed", "missing"}
    ELSE {"err", "ok"}

Unnamed == "[Unnamed]"

\* the first protocol call of the caller on the client it got back; in
\* list_sessions the future ends with (user_id, device_name)
ProtocolCall(t) ==
    /\ tasks.result = "none"
    /\ t \in DOMAIN tasks.run
    /\ tasks.run[t].step = "ready"
    /\ net' = net \cup {FirstCall(tasks.cmd)}
    /\ \E outcome \in CallOutcomes(tasks.cmd) :
       LET task == [tasks.run[t] EXCEPT !.called = TRUE] IN
       tasks' = CASE outcome = "err" ->
                       Finished(t, [task EXCEPT !.step = "failed",
                                                !.cause = "call_err"], "Err")
                  [] outcome = "missing" ->
                       [Panicked(t, "NoDevice") EXCEPT !.run[t].called = TRUE]
                  [] outcome = "unnamed" ->
                       Finished(t, [task EXCEPT !.step = "done",
                                                !.name = Unnamed], "Ok")
                  [] OTHER ->
                       Finished(t, [task EXCEPT !.step = "done",
                                                !.name = "Phone"], "Ok")
    /\ UNCHANGED dirs

\* a list_sessions that returns the entries in the order of the store
KeepsStoreOrder(sessions_info) == sessions_info

\* list_sessions: sessions_info.sort_by(|(id_1, _), (id_2, _)| id_1.cmp(id_2)),
\* a stable sort
RECURSIVE SortByUserId(_)
SortByUserId(sessions_info) ==
    IF sessions_info = <<>> THEN <<>>
    ELSE LET n == Len(sessions_info)
             sorted == SortByUserId(SubSeq(sessions_info, 1, n - 1))
             last == sessions_info[n]
             before == {k \in 1..(n - 1) :
                          StrCmp(sorted[k].user_id, last.user_id) # "Greater"}
         IN  SubSeq(sorted, 1, Cardinality(before)) \o <<last>>
             \o SubSeq(sorted, Cardinality(before) + 1, n - 1)

\* list_sessions after join_all: the outputs in the order of the futures,
\* collected into a Result (the first Err wins), then sorted
ListSessionsCollect ==
    /\ tasks.cmd = "session_list"
    /\ tasks.result = "none"
    /\ \A t \in DOMAIN tasks.run : tasks.run[t].step \in {"done", "failed"}
    /\ tasks' = IF \E t \in DOMAIN tasks.run : tasks.run[t].step = "failed"
                THEN [tasks EXCEPT !.result = "Err"]
                ELSE [tasks EXCEPT
                        !.result = "Ok",
                        !.value = SortByUserId(
                            [t \in DOMAIN tasks.run |->
                               [user_id |-> tasks.run[t].user_id,
                                name |-> tasks.run[t].name]])]
    /\ UNCHANGED <<net, dirs>>

----------------------------------------------------------------------------
(* Two processes on one sessions.json: src/src/bin/trace-cli.rs main,
   src/src/lib.rs SessionsFile *)

\* the second process: its own SessionsFile in memory (sessions), the text
\* its fs::write is writing (buf), the one store update its command makes
\* (update) and whether it has written to the file
NoOther ==
    [pc |-> "off", sessions |-> <<>>, buf |-> <<>>, update |-> NoCall,
     wrote |-> FALSE]

\* main of the second process: SessionsFile::open on the same path
OtherOpen ==
    /\ other.pc = "closed"
    /\ IF ReadOk(file)
       THEN LET p == Parse(file.data) IN
            IF p.ok
            THEN other' = [other EXCEPT !.pc = "idle", !.sessions = p.sessions]
            ELSE other' = [other EXCEPT !.pc = "panicked"]
       ELSE other' = [other EXCEPT !.pc = "write_create", !.buf = EmptyList]
    /\ UNCHANGED file

\* SessionsFile::new_session in the second process, up to self.write()
OtherNewSession(session) ==
    /\ other.pc = "idle"
    /\ other.update = NoCall
    /\ IF ~ \E i \in 1..Len(other.sessions) :
                other.sessions[i].user_id = session.user_id
       THEN LET ss == Append(other.sessions, session) IN
            other' = [other EXCEPT
                        !.sessions = ss, !.buf = Serialize(ss),
                        !.pc = "write_create",
                        !.update = Done("new_session", session.user_id,
                                        <<session>>, "Ok", <<>>)]
       ELSE other' = [other EXCEPT
                        !.update = Done("new_session", session.user_id,
                                        <<session>>, "AlreadyExists", <<>>)]
    /\ UNCHANGED file

\* SessionsFile::delete_session in the second process, up to self.write()
OtherDeleteSession(user_id) ==
    /\ other.pc = "idle"
    /\ other.update = NoCall
    /\ LET i == Position(other.sessions, user_id) IN
       IF i # 0
       THEN LET ss == Remove(other.sessions, i) IN
            other' = [other EXCEPT
                        !.sessions = ss, !.buf = Serialize(ss),
                        !.pc = "write_create",
                        !.update = Done("delete_session", user_id, <<>>,
                                        "Ok", <<>>)]
       ELSE other' = [other EXCEPT
                        !.update = Done("delete_session", user_id, <<>>,
                                        "NotFound", <<>>)]
    /\ UNCHANGED file

\* fs::write in the second process, first half: File::create truncates
OtherWriteCreate ==
    /\ other.pc = "write_create"
    /\ file' = Text(<<>>)
    /\ other' = [other EXCEPT !.pc = "write_data", !.wrote = TRUE]

\* fs::write in the second process, second half: write_all, in one or more
\* write calls
OtherWriteData ==
    /\ other.pc = "write_data"
    /\ \E n \in (Len(file.data) + 1)..Len(other.buf) :
          /\ file' = Text(SubSeq(other.buf, 1, n))
          /\ other' = [other EXCEPT !.pc = IF n = Len(other.buf) THEN "idle"
                                           ELSE "write_data"]

----------------------------------------------------------------------------
(* Text rendering: src/src/export.rs messages_to_txt,
   user_id_to_string_representation *)

\* the events of one room as messages_to_txt tells them apart: "none" does
\* not deserialize; "Text" stands for the message types rendered as prefix
\* and body; "Unrecognized" is `_` among the message types, "MessageLike"
\* `_` among the message-like events, "State" a state event
TxtKinds ==
    {"none", "Text", "Redacted", "VerificationRequest", "Unrecognized",
     "MessageLike", "State"}

TxtEventShapes ==
    {[kind |-> "none", sender |-> <<>>, to |-> <<>>]}
    \cup {[kind |-> kind, sender |-> <<u>>, to |-> <<>>] :
            kind \in TxtKinds \ {"none", "VerificationRequest"}, u \in UserIds}
    \cup {[kind |-> "VerificationRequest", sender |-> <<u>>, to |-> <<v>>] :
            u \in UserIds, v \in UserIds}

TxtInputs == UNION {[1..n -> TxtEventShapes] : n \in 0..MaxEvents}

\* what room.get_member_no_sync(id).await can answer: a member with a
\* display name, a member without one, no member, or an error
MemberAnswers == {"named", "unnamed", "absent", "err"}

Nick == <<110>>            \* the display name "n"
SpaceOpenParen == <<32, 40>>
CloseParen == <<41>>

NoTxt ==
    [step |-> "off", events |-> <<>>, k |-> 1, memo |-> <<>>,
     lookups |-> [u \in UserIds |-> 0], answers |-> [u \in UserIds |-> "none"],
     lines |-> <<>>, result |-> "none"]

\* messages_to_txt is called: the empty HashMap and the empty String
MessagesToTxtCalled(events) ==
    [NoTxt EXCEPT !.step = "run", !.events = events]

\* user_id_to_string_representation: the HashMap after the call, whether
\* the member was looked up, and the Ok string (<<>> for the Err of `?`)
UserIdToStringRepresentation(memo, event_sender_id, answer) ==
    IF event_sender_id \in DOMAIN memo
    THEN [memo |-> memo, looked |-> FALSE, result |-> <<memo[event_sender_id]>>]
    ELSE IF answer = "err"
    THEN [memo |-> memo, looked |-> TRUE, result |-> <<>>]
    ELSE LET string_representation ==
                 IF answer = "named"
                 THEN Nick \o SpaceOpenParen \o event_sender_id \o CloseParen
                 ELSE event_sender_id
         IN  [memo |-> (event_sender_id :> string_representation) @@ memo,
              looked |-> TRUE, result |-> <<string_representation>>]

\* the bookkeeping of one call: the number of lookups of the account and
\* the first answer it got
Looked(t, id, r, answer) ==
    IF r.looked
    THEN [t EXCEPT !.memo = r.memo, !.lookups[id] = @ + 1,
                   !.answers[id] = IF @ = "none" THEN answer ELSE @]
    ELSE t

\* the line messages_to_txt pushes for an event that deserialized: the
\* sender, the label in the prefix (none where the line has no prefix), the
\* text after it, and the label of a verification request's recipient
TxtBody(kind) ==
    CASE kind = "Text" -> "{body}"
      [] kind = "Redacted" -> "[Redacted message]"
      [] kind = "VerificationRequest" -> "[Verification request sent to {}]"
      [] kind = "Unrecognized" -> "[Message of unrecognized type]"
      [] kind = "MessageLike" -> "[Placeholder message-like]"
      [] kind = "State" -> "[Placeholder state-like]"

HasPrefix(kind) == kind \in {"Text", "Redacted", "VerificationRequest"}

EventStringified(event, sender_label, to_label) ==
    [sender |-> event.sender,
     label |-> IF HasPrefix(event.kind) THEN sender_label ELSE <<>>,
     text |-> TxtBody(event.kind),
     to |-> event.to,
     to_label |-> to_label]

SkippedTxtLine ==
    [sender |-> <<>>, label |-> <<>>,
     text |-> "[Message skipped due to deserialization failure]",
     to |-> <<>>, to_label |-> <<>>]

TxtEnds(t, result) == [t EXCEPT !.step = "done", !.result = result]

\* messages_to_txt: one turn of `for event in events`
MessagesToTxtEvent ==
    /\ txt.step = "run"
    /\ txt.k <= Len(txt.events)
    /\ LET event == txt.events[txt.k] IN
       IF event.kind = "none"
       THEN txt' = [txt EXCEPT !.lines = @ \o <<SkippedTxtLine>>, !.k = @ + 1]
       ELSE \E ts_ok \in BOOLEAN, a1 \in MemberAnswers, a2 \in MemberAnswers :
            LET sender == event.sender[1]
                r1 == UserIdToStringRepresentation(txt.memo, sender, a1)
                t1 == Looked(txt, sender, r1, a1)
            IN  IF ~ ts_ok THEN txt' = TxtEnds(txt, "panic")
                ELSE IF r1.result = <<>> THEN txt' = TxtEnds(t1, "Err")
                ELSE IF event.kind = "VerificationRequest"
                THEN LET to == event.to[1]
                         r2 == UserIdToStringRepresentation(t1.memo, to, a2)
                         t2 == Looked(t1, to, r2, a2)
                     IN  IF r2.result = <<>> THEN txt' = TxtEnds(t2, "Err")
                         ELSE txt' = [t2 EXCEPT
                                        !.lines = @ \o <<EventStringified(
                                                    event, r1.result, r2.result)>>,
                                        !.k = @ + 1]
                ELSE txt' = [t1 EXCEPT
                               !.lines = @ \o <<EventStringified(
                                                   event, r1.result, <<>>)>>,
                               !.k = @ + 1]

\* messages_to_txt: Ok(room_export)
MessagesToTxtReturns ==
    /\ txt.step = "run"
    /\ txt.k > Len(txt.events)
    /\ txt' = TxtEnds(txt, "Ok")

----------------------------------------------------------------------------
(* Session store: properties *)

HasUser(ss, user_id) == \E i \in 1..Len(ss) : ss[i].user_id = user_id

\* lastOp is the operation that just returned to the caller
Returned == pc = "idle" /\ call = NoCall

\* C1: in every state reached by new_session and delete_session calls on a
\* store opened on an absent file or on a file the store wrote, no two
\* records of the store carry the same user_id.
NoDuplicateAccounts ==
    \A i, j \in 1..Len(sessions) :
        i # j => sessions[i].user_id # sessions[j].user_id

\* a second new_session for a stored account has been answered while the
\* store holds two accounts
NoDuplicateAccountsWitness ==
    /\ Returned
    /\ Len(sessions) = 2
    /\ lastOp.op = "new_session" /\ lastOp.ret = "AlreadyExists"

\* C2 as stated: after new_session(r), get(r.user_id) returns a record equal
\* to r, in every store state and for every record r.
GetAfterNewSessionReturnsIt ==
    (/\ Returned
     /\ lastOp.op = "get" /\ prevOp.op = "new_session"
     /\ lastOp.uid = prevOp.uid)
    => (lastOp.ret = "Ok" /\ lastOp.val = prevOp.rec)

\* C2 amended: after a new_session(r) that succeeded (no record with r's
\* user_id was present), get(r.user_id) returns a record equal to r in all
\* four fields.
GetAfterAcceptedNewSession ==
    (/\ Returned
     /\ lastOp.op = "get" /\ prevOp.op = "new_session" /\ prevOp.ret = "Ok"
     /\ lastOp.uid = prevOp.uid)
    => (lastOp.ret = "Ok" /\ lastOp.val = prevOp.rec)

\* get has answered right after an accepted new_session for the second
\* account of the store
GetAfterAcceptedNewSessionWitness ==
    /\ Returned
    /\ lastOp.op = "get" /\ prevOp.op = "new_session" /\ prevOp.ret = "Ok"
    /\ lastOp.uid = prevOp.uid
    /\ Len(sessions) = 2
    /\ sessions[2].user_id = lastOp.uid
    /\ lastOp.val[1].refresh_token # <<>>

\* C3: after delete_session(a), get(a) fails with NotFound, whether
\* delete_session succeeded or itself failed with NotFound.
GetAfterDeleteNotFound ==
    (/\ Returned
     /\ lastOp.op = "get" /\ prevOp.op = "delete_session"
     /\ lastOp.uid = prevOp.uid)
    => (lastOp.ret = "NotFound" /\ lastOp.val = <<>>)

\* get has answered right after a successful delete_session of the first of
\* two stored accounts
GetAfterDeleteNotFoundWitness ==
    /\ Returned
    /\ lastOp.op = "get" /\ prevOp.op = "delete_session" /\ prevOp.ret = "Ok"
    /\ lastOp.uid = prevOp.uid
    /\ Len(sessions) = 1

\* C4: new_session for a user_id already present returns AlreadyExists and
\* leaves the in-memory sequence and the backing file as they were; nothing
\* is written.
DuplicateRejectedUnchanged ==
    (/\ Returned
     /\ lastOp.op = "new_session"
     /\ HasUser(pre.sessions, lastOp.uid))
    => (/\ lastOp.ret = "AlreadyExists"
        /\ sessions = pre.sessions
        /\ file = pre.file
        /\ ~ lastOp.wrote)

\* a new_session carrying another device id and other tokens for a stored
\* account has been answered
DuplicateRejectedUnchangedWitness ==
    /\ Returned
    /\ lastOp.op = "new_session"
    /\ HasUser(pre.sessions, lastOp.uid)
    /\ \E i \in 1..Len(sessions) :
          /\ sessions[i].user_id = lastOp.uid
          /\ sessions[i].device_id # lastOp.rec[1].device_id
          /\ sessions[i].refresh_token # lastOp.rec[1].refresh_token

\* C5: between two store operations the backing file holds the
\* serialization of the whole in-memory sequence; a successful new_session
\* or delete_session has rewritten the file before returning, a failed
\* operation and get have not written.
FileIsSerializedStore ==
    Returned =>
        /\ file = Text(Serialize(sessions))
        /\ (lastOp.op \in {"new_session", "delete_session"} /\ lastOp.ret = "Ok")
              => lastOp.wrote
        /\ (lastOp.op = "get" \/ lastOp.ret \in {"NotFound", "AlreadyExists"})
              => (~ lastOp.wrote /\ file = pre.file)

\* a delete_session has succeeded on a store of two accounts and returned
FileIsSerializedStoreWitness ==
    /\ Returned
    /\ lastOp.op = "delete_session" /\ lastOp.ret = "Ok"
    /\ Len(pre.sessions) = 2
    /\ file # pre.file

\* a file content is complete: absent, or a whole document that was handed
\* to fs::write
Complete(f) ==
    \/ f = Absent
    \/ f = NotUtf8
    \/ (ReadOk(f) /\ Parse(f.data).ok)

\* C6: persist is atomic for a reader: a concurrent reader of the backing
\* file observes the complete old content or the complete new content,
\* never an empty, truncated or half-written file.
ReaderSeesOldOrNew ==
    observed.during \in {"new_session", "delete_session"}
        => Complete(observed.content)

\* C7: open on a path where a file already exists never changes the file's
\* content: it parses the file into the store or fails with CorruptState.
OpenKeepsExistingFile ==
    (/\ pre.file.exists
     /\ \/ call.op = "open"
        \/ (lastOp.op = "open" /\ call = NoCall /\ pc \in {"idle", "panicked"}))
    => (/\ file = pre.file
        /\ call = NoCall => lastOp.ret \in {"Ok", "CorruptState"})

----------------------------------------------------------------------------
(* Room catalog and resolver: properties *)

\* the tier of a catalog entry in the listing order of the specification
Tier(room) ==
    IF room.name # <<>> THEN 1
    ELSE IF room.canonical_alias # <<>> THEN 2
    ELSE 3

\* the string an entry is ordered by within its tier
TierKey(room) ==
    IF room.name # <<>> THEN room.name[1]
    ELSE IF room.canonical_alias # <<>> THEN room.canonical_alias[1]
    ELSE room.id

\* C8: the sequence returned by get_rooms_info is sorted by the three-tier
\* order: rooms with a name first, by name; then rooms with no name but a
\* canonical alias, by alias; then rooms with neither, by room id.
CatalogNamedFirst ==
    rpc \in {"catalog", "resolved"} =>
        \A i, j \in 1..Len(rooms_info) :
            i < j =>
                \/ Tier(rooms_info[i]) < Tier(rooms_info[j])
                \/ /\ Tier(rooms_info[i]) = Tier(rooms_info[j])
                   /\ StrCmp(TierKey(rooms_info[i]), TierKey(rooms_info[j])) # "Greater"

\* the catalog entries the identifier matches, field by field
IdMatches == {i \in 1..Len(rooms_info) : rooms_info[i].id = room_ident}
CanonicalMatches ==
    {i \in 1..Len(rooms_info) : rooms_info[i].canonical_alias = <<room_ident>>}
AltMatches ==
    {i \in 1..Len(rooms_info) :
        \E k \in 1..Len(rooms_info[i].alt_aliases) :
            rooms_info[i].alt_aliases[k] = room_ident}
NameMatches == {i \in 1..Len(rooms_info) : rooms_info[i].name = <<room_ident>>}

\* C9: resolution applies the priority room id > canonical alias > alternate
\* alias > display name: if a room's id equals the identifier that room is
\* returned whatever other rooms' aliases or names equal it; failing that a
\* room whose canonical alias equals it; failing that a room with an equal
\* alternate alias.
ResolverPrecedence ==
    rpc = "resolved" =>
        /\ IdMatches # {} => (resolved.ok /\ resolved.index \in IdMatches)
        /\ (IdMatches = {} /\ CanonicalMatches # {})
              => (resolved.ok /\ resolved.index \in CanonicalMatches)
        /\ (IdMatches = {} /\ CanonicalMatches = {} /\ AltMatches # {})
              => (resolved.ok /\ resolved.index \in AltMatches)

\* the identifier is the id of the returned room and the name of a room
\* listed before it
ResolverPrecedenceWitness ==
    /\ rpc = "resolved"
    /\ resolved.ok
    /\ resolved.index \in IdMatches
    /\ \E j \in NameMatches : j < resolved.index

\* C10: when the identifier matches no room id, canonical alias or alternate
\* alias, resolution by name returns the room if exactly one room has that
\* name, fails with NotFound if none has, and fails with Ambiguous carrying
\* exactly the ids of all rooms with that name if two or more have.
NameResolution ==
    (/\ rpc = "resolved"
     /\ IdMatches = {} /\ CanonicalMatches = {} /\ AltMatches = {})
    => /\ NameMatches = {} => resolved = ErrNoRooms
       /\ Cardinality(NameMatches) = 1
             => (resolved.ok /\ resolved.index \in NameMatches)
       /\ Cardinality(NameMatches) >= 2 =>
             /\ ~ resolved.ok
             /\ resolved.err = "MultipleRoomsWithSpecifiedName"
             /\ Len(resolved.room_ids) = Cardinality(NameMatches)
             /\ {resolved.room_ids[k] : k \in 1..Len(resolved.room_ids)}
                   = {rooms_info[i].id : i \in NameMatches}

\* two rooms carry the name asked for and no id or alias equals it
NameResolutionWitness ==
    /\ rpc = "resolved"
    /\ room_ident = PlainName
    /\ Cardinality(NameMatches) = 2
    /\ resolved.err = "MultipleRoomsWithSpecifiedName"

----------------------------------------------------------------------------
(* Export file names: properties *)

\* "Team [team, xyz, example.com]"
TeamBasename ==
    <<84, 101, 97, 109, 32, 91, 116, 101, 97, 109, 44, 32, 120, 121, 122, 44, 32,
      101, 120, 97, 109, 112, 108, 101, 46, 99, 111, 109, 93>>

\* the parts around the first colon, without the leading sigil
SplitOnceNoSigil(s) ==
    LET i == IndexOf(s, 58) IN
    <<SubSeq(s, 2, i - 1), SubSeq(s, i + 1, Len(s))>>

\* the basename with the sigils of alias and room id stripped
StrippedBasename(room) ==
    LET id_local == SplitOnceNoSigil(room.id)[1]
        server == SplitOnceNoSigil(room.id)[2]
        alias_local == SplitOnceNoSigil(room.canonical_alias[1])[1]
    IN  IF room.name # <<>> /\ room.canonical_alias # <<>>
        THEN room.name[1] \o OpenBracket \o alias_local \o CommaSpace
                \o id_local \o CommaSpace \o server \o CloseBracket
        ELSE IF room.name # <<>>
        THEN room.name[1] \o OpenBracket
                \o id_local \o CommaSpace \o server \o CloseBracket
        ELSE IF room.canonical_alias # <<>>
        THEN alias_local \o OpenBracket
                \o id_local \o CommaSpace \o server \o CloseBracket
        ELSE id_local \o OpenBracket \o server \o CloseBracket

\* C16: the export basename of a room is derived from its name, canonical
\* alias and room id with sigils stripped: the room "Team" with alias
\* "#team:example.com" and id "!xyz:example.com" gets
\* "Team [team, xyz, example.com]", and correspondingly for the name-only,
\* alias-only and neither cases.
BasenameSigilsStripped ==
    fname.done =>
        /\ fname.basename = StrippedBasename(fname.room)
        /\ fname.room = TeamRoom => fname.basename = TeamBasename

StoreInit ==
    /\ file \in {Absent, NotUtf8}
    /\ pc = "closed"
    /\ sessions = <<>>
    /\ buf = <<>>
    /\ call = NoCall
    /\ lastOp = NoCall
    /\ prevOp = NoCall
    /\ pre = [sessions |-> <<>>, file |-> Absent]
    /\ observed = NotRead

RoomIdle ==
    /\ joined = <<>>
    /\ rooms_info = <<>>
    /\ rpc = "off"
    /\ room_ident = <<>>
    /\ resolved = NoResult

----------------------------------------------------------------------------
(* Export pipeline: properties *)

\* the events of a list of pages, in arrival order
RECURSIVE Concat(_)
Concat(pages) == IF pages = <<>> THEN <<>> ELSE Head(pages) \o Concat(Tail(pages))

AllButLast(q) == SubSeq(q, 1, Len(q) - 1)

\* C11: when the pagination loop has exited with the cap not reached, the
\* last page received is empty, every page before it is non-empty, and the
\* fetched events are the concatenation of those pages in arrival order;
\* while the loop runs, no page received so far was empty.
FetchStopsAtFirstEmptyPage ==
    /\ (ex.step = "fetch") =>
           \A k \in 1..Len(ex.pages) : ex.pages[k] # <<>>
    /\ (ex.step = "write" /\ ex.total_messages <= HardCap) =>
           /\ ex.pages # <<>>
           /\ ex.pages[Len(ex.pages)] = <<>>
           /\ \A k \in 1..(Len(ex.pages) - 1) : ex.pages[k] # <<>>
           /\ ex.events = Concat(AllButLast(ex.pages))
           /\ Len(ex.events) = ex.total_messages

FetchStopsAtFirstEmptyPageWitness ==
    /\ ex.step = "write"
    /\ ex.total_messages <= HardCap
    /\ Len(ex.pages) = 3
    /\ Len(ex.events) = 2

\* C12: the pagination loop makes at most HardCap + 1 page requests for a
\* room: it goes on only while every page received was non-empty and the
\* cumulative count is within the cap, and it has exited as soon as a page
\* was empty or the count exceeded the cap.
FetchLoopBounded ==
    /\ Len(ex.pages) <= HardCap + 1
    /\ (ex.step = "fetch") =>
           /\ ex.total_messages <= HardCap
           /\ Len(ex.pages) <= ex.total_messages
    /\ (ex.step = "write") =>
           \/ ex.pages[Len(ex.pages)] = <<>>
           \/ ex.total_messages > HardCap

\* the server never returned an empty page and the cap ended the loop
FetchLoopBoundedWitness ==
    /\ ex.step = "write"
    /\ Len(ex.pages) = HardCap + 1
    /\ ex.pages[Len(ex.pages)] # <<>>
    /\ ex.total_messages > HardCap

\* C13: when a page request failed, the export has returned the error and
\* the files under the output path are exactly those that were there when
\* the room's turn began: nothing was written or overwritten for the room.
FailedFetchWritesNothing ==
    (ex.cause = "Fetch") =>
        /\ ex.step = "done"
        /\ ex.result = "Err"
        /\ fsys.files = ex.snap
        /\ ex.i \notin ex.written

\* the request failed after events had been accumulated, for a room whose
\* files an earlier turn of the batch had written
FailedFetchWritesNothingWitness ==
    /\ ex.cause = "Fetch"
    /\ ex.events # <<>>
    /\ ex.snap # {}

EmptyBatchOutcome ==
    /\ ex.step = "done"
    /\ ex.result = "Ok"
    /\ fsys.files = {}
    /\ net = {}
    /\ ex.client = "none"
    /\ rooms_info = <<>>

Resolvable(k) ==
    \/ \E r \in 1..Len(rooms_info) :
          \/ rooms_info[r].id = ex.rooms[k]
          \/ rooms_info[r].canonical_alias = <<ex.rooms[k]>>
          \/ \E a \in 1..Len(rooms_info[r].alt_aliases) :
                rooms_info[r].alt_aliases[a] = ex.rooms[k]
    \/ Cardinality({r \in 1..Len(rooms_info) : rooms_info[r].name = <<ex.rooms[k]>>}) = 1

\* the files of the room the batch exports, one per requested format
RoomFilesWritten ==
    LET basename == FormatExportFilename(rooms_info[1]) IN
    /\ ("Json" \in ex.formats) =>
          \E f \in fsys.files : f.dir = ex.output /\ f.name = basename \o FmtDotJson
    /\ ("Txt" \in ex.formats) =>
          \E f \in fsys.files : f.dir = ex.output /\ f.name = basename \o FmtDotTxt

\* C15: once the batch loop runs, (a) an identifier that was reported and
\* skipped is one that does not resolve, and no page was requested and no
\* file written for it; (b) the batch never stops at an identifier that does
\* not resolve; (c) when the batch has returned, with success, every
\* identifier that resolves has had its files written and every other one
\* was skipped; a batch with no resolvable identifier returns success.
UnresolvableSkippedBatchContinues ==
    (ex.i >= 1) =>
        /\ \A k \in ex.skipped :
              ~ Resolvable(k) /\ k \notin ex.fetched /\ k \notin ex.written
        /\ (ex.step = "done" /\ ex.i \in 1..Len(ex.rooms)) =>
              Resolvable(ex.i) /\ ex.result # "Ok"
        /\ (ex.step = "done" /\ ex.i > Len(ex.rooms)) =>
              /\ ex.result = "Ok"
              /\ \A k \in 1..Len(ex.rooms) :
                    IF Resolvable(k)
                    THEN k \in ex.written /\ RoomFilesWritten
                    ELSE k \in ex.skipped
        /\ (ex.step = "loop" /\ fsys.files = {}) =>
              \A k \in 1..(ex.i - 1) : k \in ex.skipped

\* a batch of an ambiguous name followed by an alias has returned success,
\* the first skipped and the second written
UnresolvableSkippedBatchContinuesWitness ==
    /\ ex.step = "done"
    /\ ex.result = "Ok"
    /\ ex.rooms = <<PlainName, AliasA>>
    /\ ex.skipped = {1}
    /\ ex.written = {2}
    /\ fsys.files # {}

\* the write step of the current room has run to its end
JustWrote ==
    /\ (ex.i - 1) \in ex.written
    /\ ex.step = "loop" \/ (ex.step = "done" /\ ex.result = "Ok")

RoomFile(ext) ==
    {f \in fsys.files :
        f.dir = ex.output /\ f.name = FormatExportFilename(rooms_info[1]) \o ext}

\* the text file holds one line per fetched event, in order, the fixed line
\* in the place of every event that does not deserialize
TextKeepsEveryEvent ==
    (JustWrote /\ "Txt" \in ex.formats) =>
        \E f \in RoomFile(FmtDotTxt) :
            /\ Len(f.content) = Len(ex.events)
            /\ \A k \in 1..Len(ex.events) :
                  IF ex.events[k].kind = "typed"
                  THEN f.content[k] = [text |-> "event", id |-> ex.events[k].id]
                  ELSE f.content[k].text = "[Message skipped due to deserialization failure]"

Undeserializable == {k \in 1..Len(ex.events) : ex.events[k].kind # "typed"}
NotJsonValue == {k \in 1..Len(ex.events) : ex.events[k].kind = "none"}

PastValidation ==
    \/ ex.step \in {"loop", "fetch", "write"}
    \/ rooms_info # <<>>
    \/ "messages" \in net
    \/ fsys.files # {}

\* C23: for an export given an output path, the room catalog is built, a
\* page requested or a file written only once the path is a directory whose
\* ancestors exist; an export that found the path existing and not a
\* directory has ended by the panic, with no catalog, no page request and no
\* file, and the path as it was.
OutputValidatedFirst ==
    (ex.output # <<>>) =>
        /\ PastValidation => fsys.path = "dir" /\ fsys.parent = "dir"
        /\ (ex.step \in {"loop", "fetch", "write"}) => ex.path0[1] # "file"
        /\ (ex.cause = "OutputNotDir") =>
              /\ ex.result = "panic"
              /\ ex.path0[1] = "file" /\ fsys.path = "file"
              /\ ~ PastValidation
        /\ (ex.step = "done" /\ ex.path0[1] = "file") =>
              /\ ~ PastValidation
              /\ (ex.rooms # <<>>) => ex.result # "Ok"

\* files were written under an output path that was absent with its parent
OutputValidatedFirstWitness ==
    /\ ex.output # <<>>
    /\ ex.path0 = <<"absent", "absent">>
    /\ fsys.path = "dir" /\ fsys.parent = "dir"
    /\ fsys.files # {}

\* the history of the room being exported, as the server holds it
History == timeline[RoomToExportInfo.id]

\* C24: when the pagination loop has exited for a room whose history is
\* within the cap, the fetched events are exactly the events of the history,
\* each once and in order, however the server paged them; and every request
\* after the first carried the end token of the page before it.
FetchReturnsHistoryOnce ==
    /\ \A k \in 2..Len(ex.tokens) : ex.tokens[k][1] = ex.tokens[k - 1][2]
    /\ (ex.step = "write" /\ Len(History) <= HardCap) =>
          ex.events = [k \in 1..Len(History) |-> TimelineEvent(History, k)]

\* C25: the accumulated events never exceed the cap; when the loop has exited
\* on the cap, the page that crossed it is not among the events, which are
\* those of the earlier pages, and the export goes on to the room's files:
\* once the write step has run they are written from those events, and an
\* export that ended otherwise ended on a rendering failure.
CapDiscardsCrossingPage ==
    /\ Len(ex.events) <= HardCap
    /\ (ex.step = "write" /\ ex.total_messages > HardCap) =>
          /\ ex.pages[Len(ex.pages)] # <<>>
          /\ ex.events = Concat(AllButLast(ex.pages))
          /\ Len(ex.events) = ex.total_messages - Len(ex.pages[Len(ex.pages)])
          /\ ex.result = "none"
    /\ (JustWrote /\ ex.total_messages > HardCap) =>
          /\ RoomFilesWritten
          /\ ("Json" \in ex.formats) =>
                \E f \in RoomFile(FmtDotJson) : Len(f.content) = Len(ex.events)
          /\ ("Txt" \in ex.formats) =>
                \E f \in RoomFile(FmtDotTxt) : Len(f.content) = Len(ex.events)
    /\ (ex.step = "done" /\ ex.total_messages > HardCap /\ ex.result # "Ok") =>
          ex.cause \in {"JsonValue", "Member", "Timestamp"}

CapDiscardsCrossingPageWitness ==
    /\ JustWrote
    /\ ex.total_messages > HardCap
    /\ Len(ex.events) = HardCap
    /\ fsys.files # {}

----------------------------------------------------------------------------
(* Commands that restore a client: properties *)

\* C21: nonfirst_login hands a client back only after the stored session was
\* restored into it and the wait for the end-to-end-encryption
\* initialization has completed; no caller issues its protocol call on the
\* client before that; and a nonfirst_login whose build or restore failed
\* hands no client back, so that no call is made.
HandleOnlyAfterRestoreAndWait ==
    \A t \in DOMAIN tasks.run :
      LET task == tasks.run[t] IN
      /\ task.handle => task.restored /\ task.waited
      /\ task.called => task.handle /\ task.waited
      /\ task.cause \in {"build_err", "restore_err", "NotFound"} =>
            ~ task.handle /\ ~ task.called /\ ~ task.restored
      /\ task.called => FirstCall(tasks.cmd) \in net

HandleOnlyAfterRestoreAndWaitWitness ==
    /\ tasks.cmd = "session_list"
    /\ Len(tasks.run) = 2
    /\ tasks.run[1].called
    /\ tasks.run[2].cause = "restore_err"

\* C22: a list_sessions that returns Ok returns one entry per stored
\* account, each with the device name the server gave for that account, in
\* strictly ascending order of the account ids, whatever the order in which
\* the futures completed.
ListSortedWhateverCompletionOrder ==
    (tasks.cmd = "session_list" /\ tasks.result = "Ok") =>
        /\ Len(tasks.value) = Len(sessions)
        /\ \A i \in DOMAIN sessions :
             \E k \in DOMAIN tasks.value :
                /\ tasks.value[k].user_id = sessions[i].user_id
                /\ tasks.value[k].name = tasks.run[i].name
        /\ \A k \in 1..(Len(tasks.value) - 1) :
             StrCmp(tasks.value[k].user_id, tasks.value[k + 1].user_id) = "Less"

\* the future of the account that sorts last completed first
ListSortedWhateverCompletionOrderWitness ==
    /\ tasks.cmd = "session_list" /\ tasks.result = "Ok"
    /\ Len(tasks.value) = 2
    /\ tasks.run[tasks.order[1]].user_id = UserB
    /\ tasks.value[1].user_id = UserA

----------------------------------------------------------------------------
(* Text rendering: properties *)

\* the label of an account: what the first lookup of it resolved
LabelOf(id) ==
    IF txt.answers[id] = "named"
    THEN Nick \o SpaceOpenParen \o id \o CloseParen
    ELSE id

\* within one call of messages_to_txt the member lookup is made at most once
\* per account id
LookupAtMostOncePerId == \A u \in UserIds : txt.lookups[u] <= 1

\* every line that has a prefix carries the label of its sender, and every
\* verification request carries the label of its recipient
PrefixedLinesCarryLabel ==
    \A i \in DOMAIN txt.lines :
      LET line == txt.lines[i] IN
      /\ line.label # <<>> => line.label = <<LabelOf(line.sender[1])>>
      /\ line.to # <<>> => line.to_label = <<LabelOf(line.to[1])>>

\* C27: within one room's text export the member lookup is made at most
\* once per account id (senders and verification-request recipients alike,
\* whatever the lookup found), and every line of an event with a sender
\* carries that sender's label: "display_name (account_id)" if a display
\* name was resolved, else the bare account id.
EveryLineCarriesMemoizedLabel ==
    /\ LookupAtMostOncePerId
    /\ \A i \in DOMAIN txt.lines :
         LET line == txt.lines[i] IN
         /\ line.sender # <<>> => line.label = <<LabelOf(line.sender[1])>>
         /\ line.to # <<>> => line.to_label = <<LabelOf(line.to[1])>>

----------------------------------------------------------------------------
(* Two processes on one sessions.json: properties *)

\* the file shows an accepted update: the account of new_session is in it,
\* the account of delete_session is not
Reflected(op) ==
    /\ ReadOk(file) /\ Parse(file.data).ok
    /\ IF op.op = "new_session"
       THEN Position(Parse(file.data).sessions, op.uid) # 0
       ELSE Position(Parse(file.data).sessions, op.uid) = 0

Accepted(op) == op.op \in {"new_session", "delete_session"} /\ op.ret = "Ok"

\* the first process has written to the file
FirstWrote == call.wrote \/ lastOp.wrote \/ prevOp.wrote

\* C29: the store has no protection between processes. A process whose
\* new_session or delete_session has returned Ok finds its update in the
\* file as long as no other process has written to the file (a single
\* owner never loses an update); with two processes that each opened the
\* file and each made a successful update, for different accounts, the
\* file can end without one of the two updates (the witness).
SingleOwnerKeepsUpdates ==
    /\ (pc = "idle" /\ Accepted(lastOp) /\ ~ other.wrote) =>
            /\ file = Text(Serialize(sessions))
            /\ Reflected(lastOp)
    /\ (other.pc = "idle" /\ Accepted(other.update) /\ ~ FirstWrote) =>
            /\ file = Text(Serialize(other.sessions))
            /\ Reflected(other.update)

\* both updates were accepted and written, for different accounts, and the
\* file lacks one of them
SingleOwnerKeepsUpdatesWitness ==
    /\ pc = "idle" /\ Accepted(lastOp)
    /\ other.pc = "idle" /\ Accepted(other.update)
    /\ lastOp.uid # other.update.uid
    /\ ~ Reflected(lastOp) \/ ~ Reflected(other.update)

----------------------------------------------------------------------------
(* Session lifecycle: properties *)

\* C18: when session_logout of an account that had a record in the store has
\* ended, whatever became of the remote logout, the account's cache
\* directory is gone and its record is in neither the store nor its file.
LogoutRemovesLocalState ==
    (cli.cmd = "logout" /\ cli.stored /\ cli.step = "done") =>
        LET normalized_user_id == AddAtToUserIdIfApplicable(cli.user_id) IN
        /\ UserIdToCryptoStorePath(normalized_user_id) \notin dirs
        /\ ~ HasUser(sessions, normalized_user_id)
        /\ file = Text(Serialize(sessions))

NoPasswordFlowNoLogin ==
    (cli.cmd = "login" /\ cli.flows # <<>> /\ "Password" \notin cli.flows[1]) =>
        /\ cli.step = "done"
        /\ cli.result = "panic"
        /\ cli.cause = "UnsupportedAuthMethod"
        /\ "login" \notin net
        /\ sessions = cli.sessions0
        /\ file = cli.file0
        /\ pc = "idle"

NoPasswordFlowNoLoginWitness ==
    /\ cli.cmd = "login"
    /\ cli.flows = <<{"Sso"}>>
    /\ cli.cause = "UnsupportedAuthMethod"
    /\ "get_login_types" \in net

\* C26: in a session_login of an account not yet stored, the store and its
\* file change only once the login request has succeeded; a sync pass is
\* attempted only when the new record is in the store and written to its
\* file, and at most once, exactly once when first_login returns Ok; when the
\* sync fails, first_login has returned the error and the record is still in
\* the store and its file.
RecordStoredBetweenLoginAndSync ==
    (cli.cmd = "login" /\ ~ cli.stored) =>
        LET normalized_user_id == AddAtToUserIdIfApplicable(cli.user_id)
            persisted == /\ HasUser(sessions, normalized_user_id)
                         /\ file = Text(Serialize(sessions))
                         /\ pc = "idle"
        IN  /\ (sessions # cli.sessions0 \/ file # cli.file0) =>
                  /\ "login" \in net
                  /\ cli.step = "storing"
                        \/ (cli.step = "done" /\ cli.cause \in {"none", "sync_err"})
            /\ cli.syncs <= 1
            /\ (cli.syncs = 1) => persisted /\ "sync" \in net
            /\ ("sync" \in net) => cli.syncs = 1
            /\ (cli.result = "Ok") => cli.syncs = 1
            /\ (cli.cause = "sync_err") =>
                  cli.result = "Err" /\ cli.step = "done" /\ persisted

RecordStoredBetweenLoginAndSyncWitness ==
    /\ cli.cmd = "login"
    /\ cli.cause = "sync_err"
    /\ Len(sessions) = Len(cli.sessions0) + 1
    /\ file = Text(Serialize(sessions))

\* C28: when session_logout has ended, it is never with the cache directory
\* of the account gone and its record still in the store; the id typed
\* without the '@' names the cache directory and the record of the id with
\* it, and its logout of a stored account ends with both removed.
LogoutWithoutAtRemovesBoth ==
    (cli.cmd = "logout" /\ cli.step = "done") =>
        LET normalized_user_id == AddAtToUserIdIfApplicable(cli.user_id)
            store_path == UserIdToCryptoStorePath(cli.user_id)
        IN  /\ store_path = UserIdToCryptoStorePath(normalized_user_id)
            /\ ~ (store_path \notin dirs /\ HasUser(sessions, normalized_user_id))
            /\ (cli.stored /\ cli.user_id[1] # 64 /\ cli.result = "Ok") =>
                  ~ HasUser(sessions, normalized_user_id)

FilenameIdle == fname = NoFilename

\* no client-restoring command, no second process, no text rendering
RestIdle ==
    /\ tasks = NoTasks
    /\ other = NoOther
    /\ txt = NoTxt

\* no export handler and no session handler is running
HandlersIdle ==
    /\ ex = NoExport
    /\ timeline = NoTimeline
    /\ fsys = NoOutput
    /\ net = {}
    /\ cli = NoHandler
    /\ dirs = {}
    /\ RestIdle

Init == StoreInit /\ RoomIdle /\ FilenameIdle /\ HandlersIdle

Next ==
    \/ Open /\ UNCHANGED <<roomVars, fname, restVars, exportVars, net, cliVars>>
    \/ (\E u \in UserIds : Get(u)) /\ UNCHANGED <<roomVars, fname, restVars, exportVars, net, cliVars>>
    \/ (\E u \in UserIds : DeleteSession(u)) /\ UNCHANGED <<roomVars, fname, restVars, exportVars, net, cliVars>>
    \/ (\E s \in Session : NewSession(s)) /\ UNCHANGED <<roomVars, fname, restVars, exportVars, net, cliVars>>
    \/ WriteCreate /\ UNCHANGED <<roomVars, fname, restVars, exportVars, net, cliVars>>
    \/ WriteData /\ UNCHANGED <<roomVars, fname, restVars, exportVars, net, cliVars>>
    \/ WriteFail /\ UNCHANGED <<roomVars, fname, restVars, exportVars, net, cliVars>>
    \/ Exit /\ UNCHANGED <<roomVars, fname, restVars, exportVars, net, cliVars>>

Spec == Init /\ [][Next]_vars

\* one process mutating the store while another process reads the file
NextPersist ==
    \/ Open /\ UNCHANGED <<roomVars, fname, restVars, exportVars, net, cliVars>>
    \/ (\E u \in UserIds : DeleteSession(u)) /\ UNCHANGED <<roomVars, fname, restVars, exportVars, net, cliVars>>
    \/ (\E s \in Session : NewSession(s)) /\ UNCHANGED <<roomVars, fname, restVars, exportVars, net, cliVars>>
    \/ WriteCreate /\ UNCHANGED <<roomVars, fname, restVars, exportVars, net, cliVars>>
    \/ WriteData /\ UNCHANGED <<roomVars, fname, restVars, exportVars, net, cliVars>>
    \/ ReaderRead /\ UNCHANGED <<roomVars, fname, restVars, exportVars, net, cliVars>>

SpecPersist == Init /\ [][NextPersist]_vars

StoreIdle ==
    /\ file = Absent
    /\ pc = "closed"
    /\ sessions = <<>>
    /\ buf = <<>>
    /\ call = NoCall
    /\ lastOp = NoCall
    /\ prevOp = NoCall
    /\ pre = [sessions |-> <<>>, file |-> Absent]
    /\ observed = NotRead

RoomsInit ==
    /\ joined \in JoinedRooms
    /\ rooms_info = <<>>
    /\ rpc = "joined"
    /\ room_ident = <<>>
    /\ resolved = NoResult

InitRooms == StoreIdle /\ RoomsInit /\ FilenameIdle /\ HandlersIdle

NextRooms ==
    \/ GetRoomsInfo /\ UNCHANGED <<storeVars, fname, restVars, exportVars, net, cliVars>>
    \/ (\E x \in Identifiers : Resolve(x)) /\ UNCHANGED <<storeVars, fname, restVars, exportVars, net, cliVars>>

SpecRooms == InitRooms /\ [][NextRooms]_vars

InitFilename ==
    /\ StoreIdle /\ RoomIdle /\ HandlersIdle
    /\ fname \in {[room |-> r, basename |-> <<>>, done |-> FALSE] : r \in FilenameRooms}

NextFilename ==
    FormatFilename /\ UNCHANGED <<storeVars, roomVars, exportVars, net, cliVars, restVars>>

SpecFilename == InitFilename /\ [][NextFilename]_vars

\* a store holding the session of the exporting account
SessionA ==
    [user_id |-> UserA, device_id |-> "DEV1", access_token |-> "tok1",
     refresh_token |-> <<>>]

StoreLoggedIn ==
    /\ sessions = <<SessionA>>
    /\ file = Text(Serialize(sessions))
    /\ pc = "idle"
    /\ buf = <<>>
    /\ call = NoCall
    /\ lastOp = NoCall
    /\ prevOp = NoCall
    /\ pre = [sessions |-> <<>>, file |-> Absent]
    /\ observed = NotRead

InitExport ==
    /\ StoreLoggedIn /\ FilenameIdle
    /\ joined = ExportJoined
    /\ rooms_info = <<>>
    /\ rpc = "joined"
    /\ room_ident = <<>>
    /\ resolved = NoResult
    /\ ex = NoExport
    /\ timeline \in {[NoTimeline EXCEPT ![RoomIdA] = h] : h \in Timelines}
    /\ fsys \in {[NoOutput EXCEPT !.path = p] : p \in {"dir", "absent", "file"}}
                \cup {[NoOutput EXCEPT !.path = "absent", !.parent = "absent"]}
    /\ net = {}
    /\ cli = NoHandler
    /\ dirs = CreateDirAll({}, UserIdToCryptoStorePath(UserA))
    /\ RestIdle

NextExport ==
    \/ /\ \E user_id \in UserIds, rooms \in Batches, formats \in FormatArgs :
          \E output \in (IF fsys.path = "dir" THEN {<<>>, <<"out">>} ELSE {<<"out">>}) :
            CliExport(user_id, rooms, formats, output)
       /\ UNCHANGED <<storeVars, roomVars, fname, restVars, cli>>
    \/ ExportLogin /\ UNCHANGED <<storeVars, roomVars, fname, restVars, cli>>
    \/ ExportSync /\ UNCHANGED <<storeVars, roomVars, fname, restVars, cli>>
    \/ LibExportStart /\ UNCHANGED <<storeVars, fname, restVars, cli>>
    \/ ExportNextRoom /\ UNCHANGED <<storeVars, fname, restVars, cli>>
    \/ FetchPage /\ UNCHANGED <<storeVars, fname, restVars, cli>>
    \/ WriteFiles /\ UNCHANGED <<storeVars, fname, restVars, cli>>

SpecExport == InitExport /\ [][NextExport]_vars

\* the stores a session command can find: each stored account was logged in
\* by session_login, which left its cache directory
SessionB ==
    [user_id |-> UserB, device_id |-> "DEV2", access_token |-> "tok2",
     refresh_token |-> <<"ref2">>]

RECURSIVE CacheDirs(_)
CacheDirs(ss) ==
    IF ss = <<>> THEN {}
    ELSE CreateDirAll(CacheDirs(Tail(ss)), UserIdToCryptoStorePath(Head(ss).user_id))

InitSession ==
    /\ sessions \in {<<>>, <<SessionA>>, <<SessionB, SessionA>>}
    /\ file = Text(Serialize(sessions))
    /\ pc = "idle"
    /\ buf = <<>>
    /\ call = NoCall
    /\ lastOp = NoCall
    /\ prevOp = NoCall
    /\ pre = [sessions |-> <<>>, file |-> Absent]
    /\ observed = NotRead
    /\ RoomIdle /\ FilenameIdle
    /\ ex = NoExport
    /\ timeline = NoTimeline
    /\ fsys = NoOutput
    /\ net = {}
    /\ cli = NoHandler
    /\ dirs = CacheDirs(sessions)
    /\ RestIdle

NextSession ==
    \/ /\ \E user_id \in UserArgs, session_name \in {<<>>, <<"name">>} :
            SessionLogin(user_id, session_name)
       /\ UNCHANGED <<storeVars, roomVars, fname, restVars, exportVars>>
    \/ FirstLoginTypes /\ UNCHANGED <<storeVars, roomVars, fname, restVars, exportVars>>
    \/ FirstLoginRequest /\ UNCHANGED <<roomVars, fname, restVars, exportVars>>
    \/ FirstLoginSync /\ UNCHANGED <<storeVars, roomVars, fname, restVars, exportVars>>
    \/ (\E user_id \in UserArgs : SessionLogout(user_id))
            /\ UNCHANGED <<storeVars, roomVars, fname, restVars, exportVars>>
    \/ LogoutRemote /\ UNCHANGED <<storeVars, roomVars, fname, restVars, exportVars>>
    \/ LogoutLocal /\ UNCHANGED <<roomVars, fname, restVars, exportVars>>
    \/ LogoutReturns /\ UNCHANGED <<storeVars, roomVars, fname, restVars, exportVars>>
    \/ WriteCreate /\ UNCHANGED <<roomVars, fname, restVars, exportVars, net, cliVars>>
    \/ WriteData /\ UNCHANGED <<roomVars, fname, restVars, exportVars, net, cliVars>>
    \/ WriteFail /\ UNCHANGED <<roomVars, fname, restVars, exportVars, net, cliVars>>

SpecSession == InitSession /\ [][NextSession]_vars

\* the stores a client-restoring command can find, in either order of login
InitClients ==
    /\ sessions \in {<<>>, <<SessionA>>, <<SessionB, SessionA>>,
                     <<SessionA, SessionB>>}
    /\ file = Text(Serialize(sessions))
    /\ pc = "idle"
    /\ buf = <<>>
    /\ call = NoCall
    /\ lastOp = NoCall
    /\ prevOp = NoCall
    /\ pre = [sessions |-> <<>>, file |-> Absent]
    /\ observed = NotRead
    /\ RoomIdle /\ FilenameIdle
    /\ ex = NoExport
    /\ timeline = NoTimeline
    /\ fsys = NoOutput
    /\ net = {}
    /\ cli = NoHandler
    /\ dirs = CacheDirs(sessions)
    /\ RestIdle

NextClients ==
    \/ /\ \E cmd \in ClientCommands, user_id \in UserArgs :
            ClientCommand(cmd, user_id)
       /\ UNCHANGED <<storeVars, roomVars, fname, exportVars, cli, other, txt>>
    \/ (\E t \in DOMAIN tasks.run : NonfirstLoginBuild(t))
            /\ UNCHANGED <<storeVars, roomVars, fname, exportVars, cli, other, txt>>
    \/ (\E t \in DOMAIN tasks.run : NonfirstLoginRestore(t))
            /\ UNCHANGED <<storeVars, roomVars, fname, exportVars, cli, other, txt>>
    \/ (\E t \in DOMAIN tasks.run : NonfirstLoginWait(t))
            /\ UNCHANGED <<storeVars, roomVars, fname, exportVars, cli, other, txt>>
    \/ (\E t \in DOMAIN tasks.run : ProtocolCall(t))
            /\ UNCHANGED <<storeVars, roomVars, fname, exportVars, cli, other, txt>>
    \/ ListSessionsCollect
            /\ UNCHANGED <<storeVars, roomVars, fname, exportVars, cli, other, txt>>

SpecClients == InitClients /\ [][NextClients]_vars

\* messages_to_txt on every sequence of events up to the bound
InitTxt ==
    /\ StoreLoggedIn
    /\ RoomIdle /\ FilenameIdle
    /\ ex = NoExport
    /\ timeline = NoTimeline
    /\ fsys = NoOutput
    /\ net = {}
    /\ cli = NoHandler
    /\ dirs = {}
    /\ tasks = NoTasks
    /\ other = NoOther
    /\ txt \in {MessagesToTxtCalled(events) : events \in TxtInputs}

NextTxt ==
    \/ MessagesToTxtEvent
            /\ UNCHANGED <<storeVars, roomVars, fname, exportVars, net, cliVars,
                           tasks, other>>
    \/ MessagesToTxtReturns
            /\ UNCHANGED <<storeVars, roomVars, fname, exportVars, net, cliVars,
                           tasks, other>>

SpecTxt == InitTxt /\ [][NextTxt]_vars

\* two runs of the command line on one sessions.json: the file as an earlier
\* run left it, both processes before their SessionsFile::open. Each process
\* makes the one store update of its command. The two fs::write calls run
\* one after the other: a process truncates the file only while the other
\* is not between its own truncation and its last byte.
InitTwo ==
    /\ file \in {Absent, Text(Serialize(<<>>)), Text(Serialize(<<SessionA>>))}
    /\ pc = "closed"
    /\ sessions = <<>>
    /\ buf = <<>>
    /\ call = NoCall
    /\ lastOp = NoCall
    /\ prevOp = NoCall
    /\ pre = [sessions |-> <<>>, file |-> Absent]
    /\ observed = NotRead
    /\ RoomIdle /\ FilenameIdle
    /\ ex = NoExport
    /\ timeline = NoTimeline
    /\ fsys = NoOutput
    /\ net = {}
    /\ cli = NoHandler
    /\ dirs = {}
    /\ tasks = NoTasks
    /\ other = [NoOther EXCEPT !.pc = "closed"]
    /\ txt = NoTxt

NextTwo ==
    \/ Open /\ UNCHANGED <<roomVars, fname, exportVars, net, cliVars, restVars>>
    \/ /\ lastOp.op = "open"
       /\ \E session \in Session : NewSession(session)
       /\ UNCHANGED <<roomVars, fname, exportVars, net, cliVars, restVars>>
    \/ /\ lastOp.op = "open"
       /\ \E user_id \in UserIds : DeleteSession(user_id)
       /\ UNCHANGED <<roomVars, fname, exportVars, net, cliVars, restVars>>
    \/ /\ other.pc # "write_data"
       /\ WriteCreate
       /\ UNCHANGED <<roomVars, fname, exportVars, net, cliVars, restVars>>
    \/ WriteData /\ UNCHANGED <<roomVars, fname, exportVars, net, cliVars, restVars>>
    \/ OtherOpen
            /\ UNCHANGED <<pc, sessions, buf, call, lastOp, prevOp, pre, observed,
                           roomVars, fname, exportVars, net, cliVars, tasks, txt>>
    \/ (\E session \in Session : OtherNewSession(session))
            /\ UNCHANGED <<pc, sessions, buf, call, lastOp, prevOp, pre, observed,
                           roomVars, fname, exportVars, net, cliVars, tasks, txt>>
    \/ (\E user_id \in UserIds : OtherDeleteSession(user_id))
            /\ UNCHANGED <<pc, sessions, buf, call, lastOp, prevOp, pre, observed,
                           roomVars, fname, exportVars, net, cliVars, tasks, txt>>
    \/ /\ pc # "write_data"
       /\ OtherWriteCreate
       /\ UNCHANGED <<pc, sessions, buf, call, lastOp, prevOp, pre, observed,
                      roomVars, fname, exportVars, net, cliVars, tasks, txt>>
    \/ OtherWriteData
            /\ UNCHANGED <<pc, sessions, buf, call, lastOp, prevOp, pre, observed,
                           roomVars, fname, exportVars, net, cliVars, tasks, txt>>

SpecTwo == InitTwo /\ [][NextTwo]_vars

====
